---------------------------- MODULE Spec2Model ----------------------------
(***************************************************************************)
(* Resilience and authentication layer of the Vertex Spec Adapter:         *)
(*   - CircuitBreaker and the retry decorators (utils/retry.py)            *)
(*   - VertexAIClient.generate, which composes them (core/client.py)       *)
(*   - AuthenticationManager (core/auth.py)                                *)
(* Each component has its own specification over one set of variables;     *)
(* the variables a specification does not use stay at their initial value. *)
(***************************************************************************)
EXTENDS Integers, Sequences, FiniteSets, TLC

VARIABLES
    \* ---- clock (datetime.utcnow / time.sleep)
    now,
    \* ---- CircuitBreaker fields (retry.py:59-67)
    state, failure_count, success_count, last_failure_time,
    failure_threshold, recovery_timeout, expected_exception,
    \* ---- callers of CircuitBreaker.call: position and observation
    pc,            \* per caller: "idle" | "admitted" | "running"
    calls,         \* number of CircuitBreaker.call entries so far
    invocations,   \* number of times a wrapped function was started
    last_result,   \* what the last finished call gave its caller
    last_op,       \* the last breaker operation that finished
    streak,        \* consecutive expected failures since CLOSED with count 0
    entered,       \* per caller: the breaker as the caller's call found it
    \* ---- one call of a retry-decorated function (tenacity's loop)
    r_decorator,   \* "retry_with_backoff" | "retry_on_transient_errors"
    r_max_retries, r_initial_wait, r_max_wait, r_exp_base,
    r_pc,          \* "idle" | "ready" | "in_call" | "sleeping" | "returned" | "raised"
    r_attempt,     \* tenacity's attempt_number, from 1
    r_trace,       \* outcome of each invocation of the function, in order
    r_slept,       \* the sleeps made so far: [hint, backoff] per failed attempt
    r_result,      \* what the decorated call gave its caller
    \* ---- VertexAIClient.generate
    g_count0,      \* the breaker's failure_count when the generate() call began
    \* ---- AuthenticationManager
    a_config,      \* the config handed to __init__ (or none)
    a_cache,       \* self._cached_credentials
    a_creds,       \* the credential objects created so far: expiry and marker
    a_next,        \* the next credential object to create
    a_pc,          \* "idle", or the strategy authenticate() is about to try
    a_method,      \* the method authenticate() resolved
    a_call,        \* the latest authenticate() call: its path argument and the
                   \* cache slot as the call found it
    a_invoked,     \* the strategies the latest authenticate() call invoked
    a_result,      \* what the latest operation gave its caller
    a_calls,       \* number of calls of the manager's public methods so far
    \* ---- ModelRegistry
    m_catalog,         \* ModelRegistry.MODEL_METADATA
    cache_ttl,         \* self.cache_ttl
    m_cache,           \* self._cache
    m_cache_timestamp, \* self._cache_timestamp
    m_stored,          \* for each cache key, the arguments of the call that stored it
    m_result,          \* the latest registry call and what it gave its caller
    \* ---- threads sharing one breaker
    t_called,          \* the threads that have made their call
    \* ---- VertexAIClient, the fields switch_model writes
    c_model_id,        \* self.model_id
    c_region,          \* self.region
    c_model_version,   \* self.model_version
    c_access_pattern,  \* self.access_pattern
    c_model_client,    \* self._model_client
    c_result           \* the latest switch_model call and what it gave its caller

breakerVars == <<state, failure_count, success_count, last_failure_time,
                 failure_threshold, recovery_timeout, expected_exception>>
callerVars  == <<pc, calls, invocations, last_result, last_op, streak, entered>>
retryCfg    == <<r_decorator, r_max_retries, r_initial_wait, r_max_wait, r_exp_base>>
retryVars   == <<retryCfg, r_pc, r_attempt, r_trace, r_slept, r_result>>
genVars     == <<g_count0>>
authVars    == <<a_config, a_cache, a_creds, a_next, a_pc, a_method, a_call,
                 a_invoked, a_result, a_calls>>
registryVars == <<m_catalog, cache_ttl, m_cache, m_cache_timestamp, m_stored, m_result>>
threadVars == <<t_called>>
switchVars == <<c_model_id, c_region, c_model_version, c_access_pattern, c_model_client,
                c_result>>
vars == <<now, breakerVars, callerVars, retryVars, genVars, authVars, registryVars,
          threadVars, switchVars>>

\* What each component's specification leaves alone
outsideBreaker == <<retryVars, genVars, authVars, registryVars, threadVars, switchVars>>
outsideRetry   == <<now, breakerVars, callerVars, genVars, authVars, registryVars, threadVars, switchVars>>
outsideRegistry == <<breakerVars, callerVars, retryVars, genVars, authVars, threadVars, switchVars>>
outsideAuth    == <<breakerVars, callerVars, retryVars, genVars, registryVars,
                     threadVars, switchVars>>
outsideSwitch  == <<now, breakerVars, callerVars, retryVars, genVars, authVars,
                    registryVars, threadVars>>

-----------------------------------------------------------------------------
(* Bounds of the model *)

NumCallers == 2
MaxThreshold == 3
MaxRecoveryTimeout == 2
MaxTime == 4
MaxRetries == 3
MaxAuthCalls == 3
TokenLifetime == 1
MaxAuthTime == 2
MaxTtl == 2

Callers == 1..NumCallers
MaxCalls == MaxThreshold + 2

-----------------------------------------------------------------------------
(* Exceptions (core/exceptions.py) *)

\* Python's None in a numeric field (Optional[int] = None); falsy like 0
None == 0
\* Python's None in a time field
NoTime == -1

\* APIError.__init__: status_code, retry_after, retryable
APIError(status, retry_after, retryable) ==
    [cls |-> "APIError", status_code |-> status, retry_after |-> retry_after,
     retryable |-> retryable, origin |-> "upstream"]

\* RateLimitError.__init__: status 429, retryable=True
RateLimitError(retry_after) ==
    [cls |-> "RateLimitError", status_code |-> 429, retry_after |-> retry_after,
     retryable |-> TRUE, origin |-> "upstream"]

\* QuotaExceededError.__init__: status 429, retryable=True
QuotaExceededError(retry_after) ==
    [cls |-> "QuotaExceededError", status_code |-> 429, retry_after |-> retry_after,
     retryable |-> TRUE, origin |-> "upstream"]

\* ModelNotFoundError.__init__: status 404, retryable left at its default False
ModelNotFoundError ==
    [cls |-> "ModelNotFoundError", status_code |-> 404, retry_after |-> None,
     retryable |-> FALSE, origin |-> "upstream"]

\* A builtin exception outside the adapter's hierarchy
ValueError ==
    [cls |-> "ValueError", status_code |-> None, retry_after |-> None,
     retryable |-> FALSE, origin |-> "upstream"]

\* The class hierarchy: the classes an instance of cls is an instance of
Bases(cls) ==
    CASE cls = "APIError"           -> {"APIError", "VertexSpecAdapterError", "Exception"}
      [] cls = "RateLimitError"     -> {"RateLimitError", "APIError", "VertexSpecAdapterError", "Exception"}
      [] cls = "QuotaExceededError" -> {"QuotaExceededError", "APIError", "VertexSpecAdapterError", "Exception"}
      [] cls = "ModelNotFoundError" -> {"ModelNotFoundError", "APIError", "VertexSpecAdapterError", "Exception"}
      [] cls = "AuthenticationError" -> {"AuthenticationError", "VertexSpecAdapterError", "Exception"}
      [] OTHER                      -> {cls, "Exception"}

IsInstance(e, classes) == Bases(e.cls) \cap classes # {}

-----------------------------------------------------------------------------
(* CircuitBreaker (utils/retry.py) *)

CLOSED == "closed"
OPEN == "open"
HALF_OPEN == "half_open"

\* The error CircuitBreaker.call raises when it rejects a call (retry.py:99-104)
BreakerOpenError ==
    [cls |-> "APIError", status_code |-> 503, retry_after |-> None,
     retryable |-> TRUE, origin |-> "breaker_open"]

\* The number of seconds the rejection's suggested_fix tells the caller to
\* wait: f"Wait {self.recovery_timeout} seconds and retry" (retry.py:103)
suggested_wait == recovery_timeout

\* _should_attempt_recovery that never finds the timeout elapsed
ShouldAttemptRecoveryNever == last_failure_time = NoTime

\* _should_attempt_recovery (retry.py:115-121)
ShouldAttemptRecovery ==
    IF last_failure_time = NoTime
    THEN TRUE
    ELSE (now - last_failure_time) >= recovery_timeout

\* _on_success that closes the circuit without zeroing the failure count
on_success_keeps_count ==
    /\ IF state = HALF_OPEN
       THEN /\ success_count' = success_count + 1
            /\ state' = CLOSED
            /\ UNCHANGED failure_count
       ELSE IF state = CLOSED
            THEN failure_count' = 0 /\ UNCHANGED <<state, success_count>>
            ELSE UNCHANGED <<state, failure_count, success_count>>
    /\ UNCHANGED last_failure_time

\* _on_success that leaves failure_count alone while CLOSED
on_success_closed_keeps ==
    /\ IF state = HALF_OPEN
       THEN /\ success_count' = success_count + 1
            /\ state' = CLOSED /\ failure_count' = 0
       ELSE UNCHANGED <<state, failure_count, success_count>>
    /\ UNCHANGED last_failure_time

\* _on_success that also closes an OPEN breaker
on_success_closes_open ==
    /\ IF state \in {HALF_OPEN, OPEN}
       THEN /\ success_count' = success_count + 1
            /\ state' = CLOSED /\ failure_count' = 0
       ELSE IF state = CLOSED
            THEN failure_count' = 0 /\ UNCHANGED <<state, success_count>>
            ELSE UNCHANGED <<state, failure_count, success_count>>
    /\ UNCHANGED last_failure_time

\* _on_success that counts a HALF_OPEN success and leaves the circuit HALF_OPEN
on_success_stays_half_open ==
    /\ IF state = HALF_OPEN
       THEN /\ success_count' = success_count + 1
            /\ UNCHANGED <<state, failure_count>>
       ELSE IF state = CLOSED
            THEN failure_count' = 0 /\ UNCHANGED <<state, success_count>>
            ELSE UNCHANGED <<state, failure_count, success_count>>
    /\ UNCHANGED last_failure_time

\* _on_success (retry.py:123-134); last_failure_time is left alone
on_success ==
    /\ IF state = HALF_OPEN
       THEN /\ success_count' = success_count + 1
            /\ IF success_count + 1 >= 1
               THEN state' = CLOSED /\ failure_count' = 0
               ELSE UNCHANGED <<state, failure_count>>
       ELSE IF state = CLOSED
            THEN failure_count' = 0 /\ UNCHANGED <<state, success_count>>
            ELSE UNCHANGED <<state, failure_count, success_count>>
    /\ UNCHANGED last_failure_time

\* _on_failure that opens only once the count exceeds the threshold
on_failure_strict ==
    /\ failure_count' = failure_count + 1
    /\ last_failure_time' = now
    /\ state' = IF state = HALF_OPEN
                THEN OPEN
                ELSE IF state = CLOSED /\ failure_count + 1 > failure_threshold
                     THEN OPEN
                     ELSE state
    /\ UNCHANGED success_count

\* An increment of failure_count made outside the lock can be overwritten by
\* a concurrent one and so be lost
on_failure_lossy ==
    /\ failure_count' \in {failure_count, failure_count + 1}
    /\ last_failure_time' = now
    /\ state' = IF state = HALF_OPEN
                THEN OPEN
                ELSE IF state = CLOSED /\ failure_count' >= failure_threshold
                     THEN OPEN
                     ELSE state
    /\ UNCHANGED success_count

\* _on_failure that starts the count afresh when it opens the breaker
on_failure_zero_on_open ==
    /\ failure_count' = IF state = HALF_OPEN
                           \/ ( state = CLOSED /\ failure_count + 1 >= failure_threshold )
                        THEN 0
                        ELSE failure_count + 1
    /\ last_failure_time' = now
    /\ state' = IF state = HALF_OPEN
                THEN OPEN
                ELSE IF state = CLOSED /\ failure_count + 1 >= failure_threshold
                     THEN OPEN
                     ELSE state
    /\ UNCHANGED success_count

\* _on_failure that does not record the time of the failure
on_failure_no_time ==
    /\ failure_count' = failure_count + 1
    /\ UNCHANGED last_failure_time
    /\ state' = IF state = HALF_OPEN
                THEN OPEN
                ELSE IF state = CLOSED /\ failure_count + 1 >= failure_threshold
                     THEN OPEN
                     ELSE state
    /\ UNCHANGED success_count

\* _on_failure (retry.py:136-153)
on_failure ==
    /\ failure_count' = failure_count + 1
    /\ last_failure_time' = now
    /\ state' = IF state = HALF_OPEN
                THEN OPEN
                ELSE IF state = CLOSED /\ failure_count + 1 >= failure_threshold
                     THEN OPEN
                     ELSE state
    /\ UNCHANGED success_count

NoEntry == [from |-> "none", inv |-> 0]

\* The new streak after an operation that is not an expected failure
StreakAfter(st, fc) == IF st = CLOSED /\ fc = 0 THEN 0 ELSE -1

\* An admission block that lets every call through, whatever the state
call_enter_no_check(c) ==
    /\ pc[c] = "idle"
    /\ calls' = calls + 1
    /\ pc' = [pc EXCEPT ![c] = "admitted"]
    /\ entered' = [entered EXCEPT ![c] = [from |-> state, inv |-> 0]]
    /\ UNCHANGED <<state, success_count, last_result, last_op>>
    /\ UNCHANGED <<now, failure_count, last_failure_time, failure_threshold,
                   recovery_timeout, expected_exception, invocations, streak>>

\* An admission block that treats a rejection as one more failure
call_enter_counts_rejection(c) ==
    /\ pc[c] = "idle"
    /\ calls' = calls + 1
    /\ IF state = OPEN
       THEN IF ShouldAttemptRecovery
            THEN /\ state' = HALF_OPEN
                 /\ success_count' = 0
                 /\ pc' = [pc EXCEPT ![c] = "admitted"]
                 /\ entered' = [entered EXCEPT ![c] = [from |-> state, inv |-> 0]]
                 /\ UNCHANGED <<last_result, last_op, failure_count, last_failure_time>>
            ELSE /\ last_result' = [kind |-> "raised", exc |-> BreakerOpenError, from |-> state,
                                  wait |-> suggested_wait]
                 /\ last_op' = "rejected"
                 /\ failure_count' = failure_count + 1
                 /\ last_failure_time' = now
                 /\ UNCHANGED <<state, success_count, pc, entered>>
       ELSE /\ pc' = [pc EXCEPT ![c] = "admitted"]
            /\ entered' = [entered EXCEPT ![c] = [from |-> state, inv |-> 0]]
            /\ UNCHANGED <<state, success_count, last_result, last_op, failure_count,
                           last_failure_time>>
    /\ UNCHANGED <<now, failure_threshold, recovery_timeout, expected_exception,
                   invocations, streak>>

\* CircuitBreaker.call, the locked admission block (retry.py:91-104)
call_enter(c) ==
    /\ pc[c] = "idle"
    /\ calls' = calls + 1
    /\ IF state = OPEN
       THEN IF ShouldAttemptRecovery
            THEN /\ state' = HALF_OPEN
                 /\ success_count' = 0
                 /\ pc' = [pc EXCEPT ![c] = "admitted"]
                 /\ entered' = [entered EXCEPT ![c] = [from |-> state, inv |-> 0]]
                 /\ UNCHANGED <<last_result, last_op>>
            ELSE /\ last_result' = [kind |-> "raised", exc |-> BreakerOpenError, from |-> state,
                                  wait |-> suggested_wait]
                 /\ last_op' = "rejected"
                 /\ UNCHANGED <<state, success_count, pc, entered>>
       ELSE /\ pc' = [pc EXCEPT ![c] = "admitted"]
            /\ entered' = [entered EXCEPT ![c] = [from |-> state, inv |-> 0]]
            /\ UNCHANGED <<state, success_count, last_result, last_op>>
    /\ UNCHANGED <<now, failure_count, last_failure_time, failure_threshold,
                   recovery_timeout, expected_exception, invocations, streak>>

\* CircuitBreaker.call: the wrapped function starts, outside the lock (retry.py:108)
call_invoke(c) ==
    /\ pc[c] = "admitted"
    /\ pc' = [pc EXCEPT ![c] = "running"]
    /\ invocations' = invocations + 1
    /\ entered' = [entered EXCEPT ![c].inv = @ + 1]
    /\ UNCHANGED <<now, breakerVars, calls, last_result, last_op, streak>>

\* CircuitBreaker.call: the wrapped function returns a value (retry.py:108-110)
call_return(c) ==
    /\ pc[c] = "running"
    /\ on_success
    /\ pc' = [pc EXCEPT ![c] = "idle"]
    /\ entered' = [entered EXCEPT ![c] = NoEntry]
    /\ last_result' = [kind |-> "returned", from |-> entered[c].from]
    /\ last_op' = "success"
    /\ streak' = StreakAfter(state', failure_count')
    /\ UNCHANGED <<now, failure_threshold, recovery_timeout, expected_exception,
                   calls, invocations>>

\* The exceptions a wrapped function raises in the breaker's specifications
FuncErrors == {APIError(500, None, TRUE), RateLimitError(None), ValueError}

\* CircuitBreaker.call with an except clause that catches every exception
call_raise_catch_all(c, e) ==
    /\ pc[c] = "running"
    /\ on_failure
    /\ last_op' = "failure"
    /\ streak' = IF streak >= 0 THEN streak + 1 ELSE streak
    /\ pc' = [pc EXCEPT ![c] = "idle"]
    /\ entered' = [entered EXCEPT ![c] = NoEntry]
    /\ last_result' = [kind |-> "raised", exc |-> e, from |-> entered[c].from]
    /\ UNCHANGED <<now, failure_threshold, recovery_timeout, expected_exception,
                   calls, invocations>>

\* CircuitBreaker.call: the wrapped function raises e (retry.py:111-113);
\* an exception that is no instance of expected_exception passes through
\* the except clause untouched
call_raise(c, e) ==
    /\ pc[c] = "running"
    /\ IF IsInstance(e, {expected_exception})
       THEN /\ on_failure
            /\ last_op' = "failure"
            /\ streak' = IF streak >= 0 THEN streak + 1 ELSE streak
       ELSE /\ UNCHANGED <<state, failure_count, success_count, last_failure_time>>
            /\ last_op' = "unexpected"
            /\ streak' = StreakAfter(state, failure_count)
    /\ pc' = [pc EXCEPT ![c] = "idle"]
    /\ entered' = [entered EXCEPT ![c] = NoEntry]
    /\ last_result' = [kind |-> "raised", exc |-> e, from |-> entered[c].from]
    /\ UNCHANGED <<now, failure_threshold, recovery_timeout, expected_exception,
                   calls, invocations>>

\* reset that keeps last_failure_time
reset_keeps_time ==
    /\ state' = CLOSED
    /\ failure_count' = 0
    /\ success_count' = 0
    /\ UNCHANGED last_failure_time
    /\ last_op' = "reset"
    /\ streak' = 0
    /\ UNCHANGED <<now, failure_threshold, recovery_timeout, expected_exception,
                   pc, calls, invocations, last_result, entered>>

\* reset (retry.py:155-162)
reset ==
    /\ state' = CLOSED
    /\ failure_count' = 0
    /\ success_count' = 0
    /\ last_failure_time' = NoTime
    /\ last_op' = "reset"
    /\ streak' = 0
    /\ UNCHANGED <<now, failure_threshold, recovery_timeout, expected_exception,
                   pc, calls, invocations, last_result, entered>>

\* The clock advances (datetime.utcnow() is read at retry.py:120 and 140)
Tick ==
    /\ now < MaxTime
    /\ now' = now + 1

\* CircuitBreaker.__init__ (retry.py:45-67)
BreakerInit ==
    /\ now = 0
    /\ state = CLOSED
    /\ failure_count = 0
    /\ last_failure_time = NoTime
    /\ success_count = 0
    /\ failure_threshold \in 0..MaxThreshold
    /\ recovery_timeout \in 0..MaxRecoveryTimeout
    /\ expected_exception \in {"Exception", "APIError"}
    /\ pc = [c \in Callers |-> "idle"]
    /\ calls = 0
    /\ invocations = 0
    /\ last_result = [kind |-> "none"]
    /\ last_op = "none"
    /\ streak = 0
    /\ entered = [c \in Callers |-> NoEntry]

AllIdle == \A c \in Callers : pc[c] = "idle"

\* The threads of test_thread_safety (test_retry.py:280-303)
NumThreads == 10
Threads == 1..NumThreads

\* No thread has called yet
ThreadIdle == t_called = {}

-----------------------------------------------------------------------------
(* AuthenticationManager (core/auth.py) *)

\* self._cached_credentials = None
NoCache == [credential_type |-> "none"]
\* No path: credentials_path=None, the environment variable unset,
\* config.service_account_path = None
NoPath == "none"
\* credentials = None
NoCred == 0

\* Every call creates at most one credential object
MaxCreds == MaxAuthCalls

CredIds == 1..MaxCreds

\* AuthMethod (schemas/config.py:10-16)
AuthMethods == {"service_account", "user_credentials", "adc", "auto"}

\* The order in which AUTO tries the strategies (auth.py:130-142)
AutoOrderSwapped == <<"service_account", "adc", "user_credentials">>

AutoOrder == <<"service_account", "user_credentials", "adc">>

\* An expiry test that still accepts a token at the instant it expires
cred_expired_strict(expiry) == expiry # NoTime /\ now > expiry

\* A credential object has an expiry and it has passed (auth.py:294-295)
cred_expired(expiry) == expiry # NoTime /\ now >= expiry

\* CachedCredentials.is_valid with a strict comparison
is_valid_strict(entry) ==
    IF entry.expires_at # NoTime /\ now > entry.expires_at
    THEN FALSE
    ELSE IF a_creds[entry.cred].expiry # NoTime /\ now > a_creds[entry.cred].expiry
         THEN FALSE
         ELSE TRUE

\* CachedCredentials.is_valid (auth.py:52-69): its result; the credential
\* objects held are never falsy
is_valid(entry) ==
    IF entry.expires_at # NoTime /\ now >= entry.expires_at
    THEN FALSE
    ELSE IF a_creds[entry.cred].expiry # NoTime /\ now >= a_creds[entry.cred].expiry
         THEN FALSE
         ELSE TRUE

\* CachedCredentials.__init__ and the two assignments each strategy makes
\* before storing the entry (auth.py:24-50, 205-207); last_validated, which
\* nothing reads, is left out
CachedCredentials(id, type, path, expiry) ==
    [cred |-> id, credential_type |-> type, path |-> path,
     valid |-> TRUE, expired |-> (expiry # NoTime /\ now >= expiry),
     expires_at |-> expiry]

\* get_credentials_path (auth.py:351-367): environment first, then config
get_credentials_path(env) ==
    IF env # NoPath
    THEN env
    ELSE IF a_config.present /\ a_config.service_account_path # NoPath
         THEN a_config.service_account_path
         ELSE NoPath

\* The path _try_service_account uses (auth.py:171)
resolved_path(arg, env) == IF arg # NoPath THEN arg ELSE get_credentials_path(env)

\* method = auth_method or (config.auth_method if config else AUTO) (auth.py:128)
resolve_method(hint) ==
    IF hint # "None"
    THEN hint
    ELSE IF a_config.present THEN a_config.auth_method ELSE "auto"

\* The strategy AUTO tries after `strategy` returned None
next_strategy(strategy) ==
    LET i == CHOOSE j \in 1..Len(AutoOrder) : AutoOrder[j] = strategy
    IN  IF i < Len(AutoOrder) THEN AutoOrder[i + 1] ELSE "idle"

\* What a freshly loaded or resolved credential object looks like, and
\* whether its refresh() works: no expiry yet, a live token, or an expired
\* token whose refresh succeeds or throws
Loads == {"no_expiry", "fresh", "expired_refreshable", "expired_unrefreshable"}

\* A strategy's "refresh if needed" (auth.py:200-202, 230-232, 254-256) fails
\* only when the credential is expired and refresh() throws
load_ok(load) == load # "expired_unrefreshable"

\* The expiry of the credential object after "refresh if needed"
load_expiry(load) ==
    IF load = "no_expiry" THEN NoTime ELSE now + TokenLifetime

\* What _try_service_account does with the file at the resolved path
\* (auth.py:172-198): "none" (return None), "fatal" (AuthenticationError) or
\* "load" (the credentials were read)
sa_file_lenient(path, status) ==
    IF path = NoPath THEN "none"
    ELSE IF status = "missing" THEN "none"
    ELSE IF status = "not_file" THEN "fatal"
    ELSE IF status = "corrupt" THEN "none"
    ELSE IF status = "unreadable" THEN "none"
    ELSE "load"

sa_file(path, status) ==
    IF path = NoPath THEN "none"
    ELSE IF status = "missing" THEN "none"
    ELSE IF status = "not_file" THEN "fatal"
    ELSE IF status = "corrupt" THEN "fatal"
    ELSE IF status = "unreadable" THEN "none"
    ELSE "load"

FileStatuses == {"missing", "not_file", "corrupt", "unreadable", "valid"}

\* What google.auth.default() does (auth.py:223, 252): raises
\* DefaultCredentialsError, raises something else, or returns a credential
\* object, with or without a service_account_email attribute
ResolverOutcomes ==
    { [kind |-> "DefaultCredentialsError"], [kind |-> "error"] }
    \cup { [kind |-> "cred", marker |-> mk, load |-> l] :
               mk \in BOOLEAN, l \in Loads }

\* What the resolver did, as the strategies tell it apart: it raised, or it
\* returned a credential with or without the service-account marker
resolver_status(o) ==
    IF o.kind # "cred" THEN "raised"
    ELSE IF o.marker THEN "marked_cred" ELSE "cred"

\* raise AuthenticationError(..., code=..., suggested_fix=...): every raise in
\* auth.py passes a suggested fix (auth.py:158-166, 181-185, 194-198, 287-291,
\* 302-306, 339-349)
AuthenticationError(code) ==
    [kind |-> "raised", code |-> code, suggested_fix |-> TRUE]

\* A strategy stores its credential object and the cache entry, and returns
\* the object (auth.py:204-211, 234-241, 258-265)
store(type, path, expiry, marker) ==
    /\ a_creds' = [a_creds EXCEPT ![a_next] = [expiry |-> expiry, marker |-> marker]]
    /\ a_cache' = CachedCredentials(a_next, type, path, expiry)
    /\ a_next' = a_next + 1

\* An authenticate() that gives up after the first strategy of AUTO reported
\* no match
after_strategy_no_chain(strategy, res) ==
    IF res = "cred"
    THEN /\ a_pc' = "idle"
         /\ a_result' = [kind |-> "returned", cred |-> a_next, from_cache |-> FALSE]
    ELSE IF res = "fatal"
    THEN /\ a_pc' = "idle"
         /\ a_result' = AuthenticationError("AUTH_002")
    ELSE /\ a_pc' = "idle"
         /\ a_result' = AuthenticationError("AUTH_001")

\* authenticate() after a strategy returned (auth.py:130-166): return the
\* credential, try the next strategy of AUTO, or raise AUTH_001; an
\* AuthenticationError raised by the strategy passes through
after_strategy(strategy, res) ==
    IF res = "cred"
    THEN /\ a_pc' = "idle"
         /\ a_result' = [kind |-> "returned", cred |-> a_next, from_cache |-> FALSE]
    ELSE IF res = "fatal"
    THEN /\ a_pc' = "idle"
         /\ a_result' = AuthenticationError("AUTH_002")
    ELSE IF a_method = "auto" /\ next_strategy(strategy) # "idle"
    THEN /\ a_pc' = next_strategy(strategy)
         /\ UNCHANGED a_result
    ELSE /\ a_pc' = "idle"
         /\ a_result' = AuthenticationError("AUTH_001")

\* An authenticate() that drops a cache entry it finds no longer valid
authenticate_drops_stale(path, hint) ==
    /\ a_pc = "idle"
    /\ a_calls < MaxAuthCalls
    /\ a_calls' = a_calls + 1
    /\ a_call' = [path |-> path, cache |-> a_cache]
    /\ a_invoked' = <<>>
    /\ IF a_cache # NoCache /\ is_valid(a_cache)
       THEN /\ a_cache' = [a_cache EXCEPT !.expired = FALSE]
            /\ a_result' = [kind |-> "returned", cred |-> a_cache.cred, from_cache |-> TRUE]
            /\ UNCHANGED <<a_pc, a_method>>
       ELSE /\ a_cache' = NoCache
            /\ a_method' = resolve_method(hint)
            /\ a_pc' = IF resolve_method(hint) = "auto"
                       THEN AutoOrder[1]
                       ELSE resolve_method(hint)
            /\ a_result' = [kind |-> "pending"]
    /\ UNCHANGED <<now, a_config, a_creds, a_next>>

\* authenticate(credentials_path, auth_method) up to the first strategy
\* (auth.py:122-150): the cache check, which also sets the entry's expired
\* flag, and the choice of method
authenticate(path, hint) ==
    /\ a_pc = "idle"
    /\ a_calls < MaxAuthCalls
    /\ a_calls' = a_calls + 1
    /\ a_call' = [path |-> path, cache |-> a_cache]
    /\ a_invoked' = <<>>
    /\ IF a_cache # NoCache /\ is_valid(a_cache)
       THEN /\ a_cache' = [a_cache EXCEPT !.expired = FALSE]
            /\ a_result' = [kind |-> "returned", cred |-> a_cache.cred, from_cache |-> TRUE]
            /\ UNCHANGED <<a_pc, a_method>>
       ELSE /\ a_cache' = IF a_cache # NoCache
                          THEN [a_cache EXCEPT !.expired = TRUE]
                          ELSE a_cache
            /\ a_method' = resolve_method(hint)
            /\ a_pc' = IF resolve_method(hint) = "auto"
                       THEN AutoOrder[1]
                       ELSE resolve_method(hint)
            /\ a_result' = [kind |-> "pending"]
    /\ UNCHANGED <<now, a_config, a_creds, a_next>>

\* _try_service_account (auth.py:168-217) and what authenticate does next
try_service_account(env, status, load) ==
    /\ a_pc = "service_account"
    /\ LET path == resolved_path(a_call.path, env)
           file == sa_file(path, status)
           res  == IF file = "load"
                   THEN IF load_ok(load) THEN "cred" ELSE "none"
                   ELSE file
       IN  /\ IF res = "cred"
              THEN store("service_account", path, load_expiry(load), TRUE)
              ELSE UNCHANGED <<a_cache, a_creds, a_next>>
           /\ a_invoked' = Append(a_invoked,
                  [strategy |-> "service_account", res |-> res,
                   cred |-> IF res = "cred" THEN a_next ELSE NoCred,
                   status |-> IF path = NoPath THEN "unresolved" ELSE status])
           /\ after_strategy("service_account", res)
    /\ UNCHANGED <<now, a_config, a_method, a_call, a_calls>>

\* _try_user_credentials without the service_account_email test
try_user_credentials_any(o) ==
    /\ a_pc = "user_credentials"
    /\ LET res == IF o.kind # "cred" THEN "none"
                  ELSE IF load_ok(o.load) THEN "cred" ELSE "none"
       IN  /\ IF res = "cred"
              THEN store("user_credentials", NoPath, load_expiry(o.load), o.marker)
              ELSE UNCHANGED <<a_cache, a_creds, a_next>>
           /\ a_invoked' = Append(a_invoked,
                  [strategy |-> "user_credentials", res |-> res,
                   cred |-> IF res = "cred" THEN a_next ELSE NoCred,
                   status |-> resolver_status(o)])
           /\ after_strategy("user_credentials", res)
    /\ UNCHANGED <<now, a_config, a_method, a_call, a_calls>>

\* _try_user_credentials (auth.py:219-247) and what authenticate does next
try_user_credentials(o) ==
    /\ a_pc = "user_credentials"
    /\ LET res == IF o.kind # "cred" THEN "none"
                  ELSE IF o.marker THEN "none"
                  ELSE IF load_ok(o.load) THEN "cred" ELSE "none"
       IN  /\ IF res = "cred"
              THEN store("user_credentials", NoPath, load_expiry(o.load), o.marker)
              ELSE UNCHANGED <<a_cache, a_creds, a_next>>
           /\ a_invoked' = Append(a_invoked,
                  [strategy |-> "user_credentials", res |-> res,
                   cred |-> IF res = "cred" THEN a_next ELSE NoCred,
                   status |-> resolver_status(o)])
           /\ after_strategy("user_credentials", res)
    /\ UNCHANGED <<now, a_config, a_method, a_call, a_calls>>

\* _try_adc (auth.py:249-271) and what authenticate does next
try_adc(o) ==
    /\ a_pc = "adc"
    /\ LET res == IF o.kind # "cred" THEN "none"
                  ELSE IF load_ok(o.load) THEN "cred" ELSE "none"
       IN  /\ IF res = "cred"
              THEN store("adc", NoPath, load_expiry(o.load), o.marker)
              ELSE UNCHANGED <<a_cache, a_creds, a_next>>
           /\ a_invoked' = Append(a_invoked,
                  [strategy |-> "adc", res |-> res,
                   cred |-> IF res = "cred" THEN a_next ELSE NoCred,
                   status |-> resolver_status(o)])
           /\ after_strategy("adc", res)
    /\ UNCHANGED <<now, a_config, a_method, a_call, a_calls>>

\* validate_credentials (auth.py:273-308); c is a credential object the
\* caller holds, or None
validate_credentials(c, refresh_ok) ==
    /\ a_pc = "idle"
    /\ a_calls < MaxAuthCalls
    /\ a_calls' = a_calls + 1
    /\ IF c = NoCred
       THEN /\ a_result' = AuthenticationError("AUTH_003")
            /\ UNCHANGED a_creds
       ELSE IF cred_expired(a_creds[c].expiry)
            THEN IF refresh_ok
                 THEN /\ a_creds' = [a_creds EXCEPT ![c].expiry = now + TokenLifetime]
                      /\ a_result' = [kind |-> "validated", refreshed |-> TRUE]
                 ELSE /\ a_result' = AuthenticationError("AUTH_003")
                      /\ UNCHANGED a_creds
            ELSE /\ a_result' = [kind |-> "validated", refreshed |-> FALSE]
                 /\ UNCHANGED a_creds
    /\ UNCHANGED <<now, a_config, a_cache, a_next, a_pc, a_method, a_call,
                   a_invoked>>

\* refresh_credentials (auth.py:310-349); None has no refresh(), a credential
\* object has one, which works or throws
refresh_credentials(c, refresh_ok) ==
    /\ a_pc = "idle"
    /\ a_calls < MaxAuthCalls
    /\ a_calls' = a_calls + 1
    /\ IF c # NoCred /\ refresh_ok
       THEN /\ a_creds' = [a_creds EXCEPT ![c].expiry = now + TokenLifetime]
            /\ a_cache' = IF a_cache # NoCache
                          THEN [a_cache EXCEPT !.cred = c, !.valid = TRUE,
                                               !.expired = FALSE,
                                               !.expires_at = now + TokenLifetime]
                          ELSE a_cache
            /\ a_result' = [kind |-> "refreshed", cred |-> c]
       ELSE /\ a_result' = AuthenticationError("AUTH_003")
            /\ UNCHANGED <<a_creds, a_cache>>
    /\ UNCHANGED <<now, a_config, a_next, a_pc, a_method, a_call, a_invoked>>

\* clear_cache (auth.py:369-376)
clear_cache ==
    /\ a_pc = "idle"
    /\ a_calls < MaxAuthCalls
    /\ a_calls' = a_calls + 1
    /\ a_cache' = NoCache
    /\ a_result' = [kind |-> "cleared"]
    /\ UNCHANGED <<now, a_config, a_creds, a_next, a_pc, a_method, a_call,
                   a_invoked>>

\* AuthenticationManager.__init__ (auth.py:88-97), with or without a config
AuthInit ==
    /\ a_config \in
         { [present |-> FALSE, auth_method |-> "auto", service_account_path |-> NoPath] }
         \cup { [present |-> TRUE, auth_method |-> "auto",
                  service_account_path |-> "config_path"],
                 [present |-> TRUE, auth_method |-> "adc",
                  service_account_path |-> NoPath] }
    /\ a_cache = NoCache
    /\ a_creds = [i \in CredIds |-> [expiry |-> NoTime, marker |-> FALSE]]
    /\ a_next = 1
    /\ a_pc = "idle"
    /\ a_method = "auto"
    /\ a_call = [path |-> NoPath, cache |-> NoCache]
    /\ a_invoked = <<>>
    /\ a_result = [kind |-> "none"]
    /\ a_calls = 0

\* The authentication variables while no manager is modelled
AuthIdle ==
    /\ a_config = [present |-> FALSE, auth_method |-> "auto", service_account_path |-> NoPath]
    /\ a_cache = NoCache
    /\ a_creds = [i \in CredIds |-> [expiry |-> NoTime, marker |-> FALSE]]
    /\ a_next = 1
    /\ a_pc = "idle"
    /\ a_method = "auto"
    /\ a_call = [path |-> NoPath, cache |-> NoCache]
    /\ a_invoked = <<>>
    /\ a_result = [kind |-> "none"]
    /\ a_calls = 0

\* The credential objects a caller can hold: those created so far, or None
Held == {NoCred} \cup {i \in CredIds : i < a_next}

-----------------------------------------------------------------------------
(* ModelRegistry (core/models.py) *)

\* region=None, and the empty string, which the code treats alike
\* (`region or 'all'`, `if region:`)
NoRegion == ""

\* An Optional[list] argument left at None
NoList == <<"<None>">>

\* get_model_metadata found nothing
NoMetadata == [model_id |-> "<None>"]

\* `x in list`
InList(x, list) == \E i \in 1..Len(list) : list[i] = x

\* `list or []` (models.py:53, exceptions.py:123)
OrEmpty(list) == IF list = NoList \/ list = <<>> THEN <<>> ELSE list

\* latest_version=None, and new_model_version=None or the empty string, which
\* `if new_model_version:` treats alike
NoVersion == ""

\* ModelMetadata.__init__ (models.py:15-63), the fields the registry and the
\* client read
ModelMetadata(model_id, access_pattern, available_regions, default_region, latest_version, versions) ==
    [model_id |-> model_id, access_pattern |-> access_pattern,
     available_regions |-> available_regions,
     default_region |-> IF default_region # NoRegion
                        THEN default_region
                        ELSE IF available_regions # <<>>
                             THEN available_regions[1]
                             ELSE NoRegion,
     latest_version |-> latest_version,
     versions |-> OrEmpty(versions)]

\* ModelRegistry.MODEL_METADATA (models.py:144-257), in insertion order
MODEL_METADATA ==
    << ModelMetadata("deepseek-ai/deepseek-v3.1-maas", "maas", <<"us-west2">>, "us-west2",
                     "latest", <<"latest">>),
       ModelMetadata("qwen/qwen3-coder-480b-a35b-instruct-maas", "maas", <<"us-south1">>, "us-south1",
                     "latest", <<"latest">>),
       ModelMetadata("gemini-2.5-pro", "native_sdk", <<"global">>, "global",
                     "latest", <<"latest">>),
       ModelMetadata("deepseek-ai/deepseek-r1-0528-maas", "maas", <<"us-central1">>, "us-central1",
                     "latest", <<"latest">>),
       ModelMetadata("moonshotai/kimi-k2-thinking-maas", "maas", <<"global">>, "global",
                     "latest", <<"latest">>),
       ModelMetadata("openai/gpt-oss-120b-maas", "maas", <<"us-central1">>, "us-central1",
                     "latest", <<"latest">>),
       ModelMetadata("meta/llama-3.1-405b-instruct-maas", "maas", <<"us-central1">>, "us-central1",
                     "latest", <<"latest">>) >>

\* MODEL_METADATA is a class-level dict any caller can add to; this entry is
\* one built with the constructor's defaults (default_region, latest_version
\* and versions left at None) and two regions
UnversionedEntry ==
    ModelMetadata("custom/unversioned", "maas", <<"global", "us-west2">>, NoRegion,
                  NoVersion, NoList)

\* str.lower() on the model ids the callers pass
lower(model_id) ==
    IF model_id = "GEMINI-2.5-PRO" THEN "gemini-2.5-pro" ELSE model_id

\* get_model_metadata (models.py:321-331)
get_model_metadata(model_id) ==
    LET found == {i \in 1..Len(m_catalog) : m_catalog[i].model_id = lower(model_id)}
    IN  IF found = {} THEN NoMetadata ELSE m_catalog[CHOOSE i \in found : TRUE]

\* raise ModelNotFoundError(...) (exceptions.py:97-123)
raise_ModelNotFoundError(model_id, region, available_regions) ==
    [kind |-> "raised", exc |-> ModelNotFoundError, model_id |-> model_id,
     region |-> region, available_regions |-> OrEmpty(available_regions)]

\* cache_key = f"{project_id}:{region or 'all'}" (models.py:289)
cache_key(project_id, region) ==
    project_id \o ":" \o (IF region # NoRegion THEN region ELSE "all")

\* "Build model list" (models.py:298-311): the catalog entries in order,
\* filtered by region when one is given
build_models(region) ==
    LET kept == SelectSeq(m_catalog,
                    LAMBDA md : region = NoRegion \/ InList(region, md.available_regions))
    IN  [i \in 1..Len(kept) |->
            [id |-> kept[i].model_id,
             available_in_region |-> IF region # NoRegion THEN "True" ELSE "None"]]

\* The cache check of get_available_models (models.py:292-294)
cache_fresh(key) ==
    /\ key \in DOMAIN m_cache
    /\ key \in DOMAIN m_cache_timestamp
    /\ now - m_cache_timestamp[key] < cache_ttl

\* m with key k set to v
Put(map, k, v) == [x \in DOMAIN map \cup {k} |-> IF x = k THEN v ELSE map[x]]

\* A get_available_models that renews the entry's timestamp when it answers
\* from the cache
get_available_models_touch(project_id, region, use_cache) ==
    LET key == cache_key(project_id, region)
        call == [op |-> "get_available_models", project_id |-> project_id,
                 region |-> region, use_cache |-> use_cache]
    IN  IF use_cache /\ cache_fresh(key)
        THEN /\ m_result' = [call |-> call, kind |-> "returned",
                             value |-> m_cache[key], rebuilt |-> FALSE]
             /\ m_cache_timestamp' = Put(m_cache_timestamp, key, now)
             /\ UNCHANGED <<m_cache, m_stored>>
        ELSE /\ m_result' = [call |-> call, kind |-> "returned",
                             value |-> build_models(region), rebuilt |-> TRUE]
             /\ IF use_cache
                THEN /\ m_cache' = Put(m_cache, key, build_models(region))
                     /\ m_cache_timestamp' = Put(m_cache_timestamp, key, now)
                     /\ m_stored' = Put(m_stored, key,
                                        [project_id |-> project_id, region |-> region])
                ELSE UNCHANGED <<m_cache, m_cache_timestamp, m_stored>>

\* get_available_models (models.py:272-319)
get_available_models(project_id, region, use_cache) ==
    LET key == cache_key(project_id, region)
        call == [op |-> "get_available_models", project_id |-> project_id,
                 region |-> region, use_cache |-> use_cache]
    IN  IF use_cache /\ cache_fresh(key)
        THEN /\ m_result' = [call |-> call, kind |-> "returned",
                             value |-> m_cache[key], rebuilt |-> FALSE]
             /\ UNCHANGED <<m_cache, m_cache_timestamp, m_stored>>
        ELSE /\ m_result' = [call |-> call, kind |-> "returned",
                             value |-> build_models(region), rebuilt |-> TRUE]
             /\ IF use_cache
                THEN /\ m_cache' = Put(m_cache, key, build_models(region))
                     /\ m_cache_timestamp' = Put(m_cache_timestamp, key, now)
                     /\ m_stored' = Put(m_stored, key,
                                        [project_id |-> project_id, region |-> region])
                ELSE UNCHANGED <<m_cache, m_cache_timestamp, m_stored>>

\* validate_model_availability that reports no regions for a catalog model
validate_model_availability_no_regions(model_id, region) ==
    LET metadata == get_model_metadata(lower(model_id))
        call == [op |-> "validate_model_availability", model_id |-> model_id,
                 region |-> region]
    IN  /\ m_result' =
              IF metadata = NoMetadata
              THEN [call |-> call] @@ raise_ModelNotFoundError(model_id, region, NoList)
              ELSE IF ~InList(region, metadata.available_regions)
              THEN [call |-> call] @@ raise_ModelNotFoundError(model_id, region, NoList)
              ELSE [call |-> call, kind |-> "returned", value |-> TRUE]
        /\ UNCHANGED <<m_cache, m_cache_timestamp, m_stored>>

\* validate_model_availability (models.py:333-371)
validate_model_availability(model_id, region) ==
    LET metadata == get_model_metadata(lower(model_id))
        call == [op |-> "validate_model_availability", model_id |-> model_id,
                 region |-> region]
    IN  /\ m_result' =
              IF metadata = NoMetadata
              THEN [call |-> call] @@ raise_ModelNotFoundError(model_id, region, NoList)
              ELSE IF ~InList(region, metadata.available_regions)
              THEN [call |-> call] @@ raise_ModelNotFoundError(model_id, region,
                                                              metadata.available_regions)
              ELSE [call |-> call, kind |-> "returned", value |-> TRUE]
        /\ UNCHANGED <<m_cache, m_cache_timestamp, m_stored>>

\* validate_version that enforces the versions list even when it is empty
validate_version_always(model_id, version) ==
    LET metadata == get_model_metadata(model_id)
        call == [op |-> "validate_version", model_id |-> model_id,
                 version |-> version]
    IN  /\ m_result' =
              IF metadata = NoMetadata
              THEN [call |-> call] @@ raise_ModelNotFoundError(model_id, NoRegion, NoList)
              ELSE IF ~InList(version, metadata.versions)
              THEN [call |-> call] @@ raise_ModelNotFoundError(model_id, NoRegion, NoList)
              ELSE [call |-> call, kind |-> "returned", value |-> TRUE]
        /\ UNCHANGED <<m_cache, m_cache_timestamp, m_stored>>

\* validate_version (models.py:442-472)
validate_version(model_id, version) ==
    LET metadata == get_model_metadata(model_id)
        call == [op |-> "validate_version", model_id |-> model_id,
                 version |-> version]
    IN  /\ m_result' =
              IF metadata = NoMetadata
              THEN [call |-> call] @@ raise_ModelNotFoundError(model_id, NoRegion, NoList)
              ELSE IF ~InList(version, metadata.versions) /\ metadata.versions # <<>>
              THEN [call |-> call] @@ raise_ModelNotFoundError(model_id, NoRegion, NoList)
              ELSE [call |-> call, kind |-> "returned", value |-> TRUE]
        /\ UNCHANGED <<m_cache, m_cache_timestamp, m_stored>>

\* clear_cache that forgets the entries and keeps their timestamps
registry_clear_cache_entries_only ==
    /\ m_cache' = <<>>
    /\ UNCHANGED m_cache_timestamp
    /\ m_stored' = <<>>
    /\ m_result' = [call |-> [op |-> "clear_cache"], kind |-> "returned",
                    dropped |-> Cardinality(DOMAIN m_cache)]

\* ModelRegistry.clear_cache (models.py:474-478); the result records how many
\* entries the cache held
registry_clear_cache ==
    /\ m_cache' = <<>>
    /\ m_cache_timestamp' = <<>>
    /\ m_stored' = <<>>
    /\ m_result' = [call |-> [op |-> "clear_cache"], kind |-> "returned",
                    dropped |-> Cardinality(DOMAIN m_cache)]

\* ModelRegistry.__init__ (models.py:259-270)
RegistryInit ==
    /\ m_catalog \in {MODEL_METADATA, Append(MODEL_METADATA, UnversionedEntry)}
    /\ cache_ttl \in 0..MaxTtl
    /\ m_cache = <<>>
    /\ m_cache_timestamp = <<>>
    /\ m_stored = <<>>
    /\ m_result = [call |-> [op |-> "none"], kind |-> "none"]

\* The registry variables while no registry is modelled
RegistryIdle ==
    /\ m_catalog = MODEL_METADATA
    /\ cache_ttl = 0
    /\ m_cache = <<>>
    /\ m_cache_timestamp = <<>>
    /\ m_stored = <<>>
    /\ m_result = [call |-> [op |-> "none"], kind |-> "none"]

\* The arguments callers pass
ModelIds == {"gemini-2.5-pro", "GEMINI-2.5-PRO", "custom/unversioned", "unknown-model"}
Regions == {"global", "us-west2", "all"}
Versions == {"latest", "v1"}
Projects == {"p"}

-----------------------------------------------------------------------------
(* VertexAIClient.switch_model (core/client.py) *)

\* The model ids handed to the client: two it has a backend for, in either
\* case, a catalog model it has no backend for, and one not in the catalog
SwitchModelIds ==
    {"gemini-2.5-pro", "GEMINI-2.5-PRO", "qwen/qwen3-coder-480b-a35b-instruct-maas",
     "deepseek-ai/deepseek-v3.1-maas", "unknown-model"}

\* What the startswith tests of _initialize_model_client find at the head of
\* a model id (client.py:184-190)
Prefix(model_id) ==
    IF model_id = "gemini-2.5-pro" THEN "gemini"
    ELSE IF model_id = "qwen/qwen3-coder-480b-a35b-instruct-maas" THEN "qwen"
    ELSE "other"

\* _initialize_model_client (client.py:181-196) with _init_gemini_client and
\* _init_qwen_client (client.py:222-255): the backend client built from the
\* fields given, APIError when the SDK cannot be imported, ModelNotFoundError
\* when the model has no backend
initialize_model_client(model_id, access_pattern, region, model_version, sdk_ok) ==
    IF access_pattern = "native_sdk" /\ Prefix(model_id) = "gemini"
    THEN IF sdk_ok
         THEN [kind |-> "client",
               client |-> [type |-> "gemini", model_id |-> model_id, region |-> region,
                           model_version |-> model_version]]
         ELSE [kind |-> "raised", exc |-> APIError(None, None, FALSE)]
    ELSE IF access_pattern = "maas" /\ Prefix(model_id) = "qwen"
    THEN [kind |-> "client",
          client |-> [type |-> "qwen", model_id |-> model_id, region |-> region,
                      model_version |-> NoVersion]]
    ELSE raise_ModelNotFoundError(model_id, region, NoList)

\* switch_model (client.py:117-179): the lookup and the two validations raise
\* before anything is assigned; the four fields are assigned before
\* _initialize_model_client runs, and _model_client after it returned
switch_model(new_model_id, new_region, new_model_version, sdk_ok) ==
    LET new_model_id_lower == lower(new_model_id)
        metadata == get_model_metadata(new_model_id_lower)
        call == [model_id |-> new_model_id, region |-> new_region,
                 model_version |-> new_model_version]
        region == IF new_region # NoRegion
                  THEN new_region
                  ELSE IF metadata.default_region # NoRegion
                       THEN metadata.default_region
                       ELSE c_region
        version == IF new_model_version # NoVersion
                   THEN new_model_version
                   ELSE metadata.latest_version
        built == initialize_model_client(new_model_id_lower, metadata.access_pattern,
                                         region, version, sdk_ok)
    IN  IF metadata = NoMetadata
        THEN /\ c_result' = [call |-> call] @@
                    raise_ModelNotFoundError(new_model_id,
                        IF new_region # NoRegion THEN new_region ELSE "unknown", NoList)
             /\ UNCHANGED <<c_model_id, c_region, c_model_version, c_access_pattern,
                            c_model_client>>
        ELSE IF new_region # NoRegion /\ ~InList(new_region, metadata.available_regions)
        THEN /\ c_result' = [call |-> call] @@
                    raise_ModelNotFoundError(new_model_id_lower, new_region,
                                             metadata.available_regions)
             /\ UNCHANGED <<c_model_id, c_region, c_model_version, c_access_pattern,
                            c_model_client>>
        ELSE IF /\ new_model_version # NoVersion
                /\ ~InList(new_model_version, metadata.versions)
                /\ metadata.versions # <<>>
        THEN /\ c_result' = [call |-> call] @@
                    raise_ModelNotFoundError(new_model_id_lower, NoRegion, NoList)
             /\ UNCHANGED <<c_model_id, c_region, c_model_version, c_access_pattern,
                            c_model_client>>
        ELSE /\ c_model_id' = new_model_id_lower
             /\ c_region' = region
             /\ c_model_version' = version
             /\ c_access_pattern' = metadata.access_pattern
             /\ IF built.kind = "client"
                THEN /\ c_model_client' = built.client
                     /\ c_result' = [call |-> call, kind |-> "returned"]
                ELSE /\ c_result' = [call |-> call] @@ built
                     /\ UNCHANGED c_model_client

\* VertexAIClient.__init__ (client.py:71-92) for the arguments with which it
\* does not raise: the model is available in the region and has a backend
SwitchInit ==
    \E id \in SwitchModelIds, version \in Versions \cup {NoVersion} :
        LET metadata == get_model_metadata(lower(id))
        IN  /\ metadata # NoMetadata
            /\ \E i \in 1..Len(metadata.available_regions) :
                 LET region == metadata.available_regions[i]
                     built == initialize_model_client(lower(id), metadata.access_pattern,
                                                      region, version, TRUE)
                 IN  /\ built.kind = "client"
                     /\ c_model_id = lower(id)
                     /\ c_region = region
                     /\ c_model_version = version
                     /\ c_access_pattern = metadata.access_pattern
                     /\ c_model_client = built.client
                     /\ c_result = [kind |-> "none"]

\* The client variables while no client is modelled
SwitchIdle ==
    /\ c_model_id = "gemini-2.5-pro"
    /\ c_region = "global"
    /\ c_model_version = NoVersion
    /\ c_access_pattern = "native_sdk"
    /\ c_model_client = [type |-> "none"]
    /\ c_result = [kind |-> "none"]

-----------------------------------------------------------------------------
(* The retry decorators (utils/retry.py), which run tenacity's retry loop *)

Min(a, b) == IF a <= b THEN a ELSE b
Max(a, b) == IF a >= b THEN a ELSE b

RECURSIVE Pow(_, _)
Pow(b, n) == IF n <= 0 THEN 1 ELSE b * Pow(b, n - 1)

\* What an invocation of the wrapped function returns: its own value
ReturnValue(n) == [cls |-> "return", value |-> n]

\* The exception types handed to retry_if_exception_type: the default
\* retryable_errors (retry.py:170) and the tuple at retry.py:240
RetryTypes == {"RateLimitError", "QuotaExceededError", "APIError"}

\* A retry predicate that retries on every exception, whatever its type
retry_if_any_exception(e) == IsInstance(e, {"Exception"})

\* retry=retry_if_exception_type(...) (retry.py:193, 240)
retry_if_exception_type(e) == IsInstance(e, RetryTypes)

\* should_retry (retry.py:222-230)
should_retry(e) ==
    IF IsInstance(e, {"RateLimitError", "QuotaExceededError"})
    THEN TRUE
    ELSE IF IsInstance(e, {"APIError"}) /\ e.status_code \in {429, 500, 502, 503, 504}
         THEN e.retryable
         ELSE FALSE

\* A stop rule that counts max_retries attempts instead of max_retries retries
stop_after_max_retries(attempt) == attempt >= r_max_retries

\* stop=stop_after_attempt(max_retries + 1) (retry.py:187, 235)
stop_after_attempt(attempt) == attempt >= r_max_retries + 1

\* wait=wait_exponential(multiplier, max, exp_base) (retry.py:188-192, 236-239):
\* multiplier * exp_base^(attempt_number - 1), kept within [0, max]
wait_exponential(attempt) ==
    Max(0, Min(r_initial_wait * Pow(r_exp_base, attempt - 1), r_max_wait))

\* The time.sleep(e.retry_after) of the wrappers' except clauses
\* (retry.py:199-203 and 246-252); 0 when the wrapper does not sleep
hint_sleep(e) ==
    IF r_decorator = "retry_with_backoff"
    THEN IF IsInstance(e, RetryTypes) /\ e.retry_after # None THEN e.retry_after ELSE 0
    ELSE IF should_retry(e) /\ e.retry_after # None THEN e.retry_after ELSE 0

\* reraise=False: the caller gets tenacity's RetryError wrapped around the
\* last attempt
reraise_wrapped(e, attempt) ==
    [kind |-> "raised",
     exc |-> [cls |-> "RetryError", status_code |-> None, retry_after |-> None,
              retryable |-> FALSE, origin |-> "tenacity"],
     attempt |-> 0]

\* reraise=True (retry.py:194, 241): when the attempts are used up the caller
\* gets the last attempt's own exception
reraise(e, attempt) == [kind |-> "raised", exc |-> e, attempt |-> attempt]

\* The decorated function is called: tenacity starts its loop (retry.py:196, 243)
retry_begin ==
    /\ r_pc \in {"idle", "returned", "raised"}
    /\ r_pc' = "ready"
    /\ r_attempt' = 1
    /\ r_trace' = <<>>
    /\ r_slept' = <<>>
    /\ r_result' = [kind |-> "none"]
    /\ UNCHANGED retryCfg

\* The wrapper invokes the function (retry.py:198, 245)
retry_invoke ==
    /\ r_pc = "ready"
    /\ r_pc' = "in_call"
    /\ UNCHANGED <<retryCfg, r_attempt, r_trace, r_slept, r_result>>

\* The function returned: the decorated call returns its value
retry_on_return ==
    /\ r_pc = "in_call"
    /\ r_trace' = Append(r_trace, ReturnValue(r_attempt))
    /\ r_pc' = "returned"
    /\ r_result' = [kind |-> "returned", value |-> ReturnValue(r_attempt)]
    /\ UNCHANGED <<retryCfg, r_attempt, r_slept>>

\* The function raised e: the wrapper's except clause sleeps on a retry_after
\* hint and re-raises; tenacity then propagates e (not a retried type), gives
\* up (attempts used up) or schedules the next attempt after its own wait
retry_on_exception(e) ==
    /\ r_pc = "in_call"
    /\ r_trace' = Append(r_trace, e)
    /\ IF ~retry_if_exception_type(e)
       THEN /\ r_pc' = "raised"
            /\ r_result' = [kind |-> "raised", exc |-> e, attempt |-> r_attempt]
            /\ r_slept' = Append(r_slept, [hint |-> hint_sleep(e), backoff |-> 0])
       ELSE IF stop_after_attempt(r_attempt)
            THEN /\ r_pc' = "raised"
                 /\ r_result' = reraise(e, r_attempt)
                 /\ r_slept' = Append(r_slept, [hint |-> hint_sleep(e), backoff |-> 0])
            ELSE /\ r_pc' = "sleeping"
                 /\ r_slept' = Append(r_slept, [hint |-> hint_sleep(e),
                                                backoff |-> wait_exponential(r_attempt)])
                 /\ UNCHANGED r_result
    /\ UNCHANGED <<retryCfg, r_attempt>>

\* tenacity's sleep is over: the next attempt
retry_wake ==
    /\ r_pc = "sleeping"
    /\ r_pc' = "ready"
    /\ r_attempt' = r_attempt + 1
    /\ UNCHANGED <<retryCfg, r_trace, r_slept, r_result>>

\* The time slept for the latest failed attempt
LastSleep == r_slept[Len(r_slept)].hint + r_slept[Len(r_slept)].backoff

\* The exceptions a decorated function raises in the retry specification
RetryErrors ==
    { RateLimitError(None), RateLimitError(2), QuotaExceededError(None),
      APIError(500, None, TRUE), APIError(500, None, FALSE),
      APIError(400, None, FALSE), ModelNotFoundError, ValueError }

\* A decorator applied with its arguments (retry.py:165-171, 209-213)
RetryInit ==
    /\ r_decorator \in {"retry_with_backoff", "retry_on_transient_errors"}
    /\ r_max_retries \in 0..MaxRetries
    /\ r_initial_wait = 1
    /\ r_max_wait \in {3, 60}
    /\ r_exp_base = 2
    /\ r_pc = "idle"
    /\ r_attempt = 1
    /\ r_trace = <<>>
    /\ r_slept = <<>>
    /\ r_result = [kind |-> "none"]

\* The breaker variables while no breaker is modelled
BreakerIdle ==
    /\ now = 0
    /\ state = CLOSED
    /\ failure_count = 0
    /\ last_failure_time = NoTime
    /\ success_count = 0
    /\ failure_threshold = 5
    /\ recovery_timeout = 60
    /\ expected_exception = "Exception"
    /\ pc = [c \in Callers |-> "idle"]
    /\ calls = 0
    /\ invocations = 0
    /\ last_result = [kind |-> "none"]
    /\ last_op = "none"
    /\ streak = 0
    /\ entered = [c \in Callers |-> NoEntry]

\* The generate variables while no client is modelled
GenIdle == g_count0 = 0

InitRetry == BreakerIdle /\ RetryInit /\ GenIdle /\ AuthIdle /\ RegistryIdle /\ ThreadIdle /\ SwitchIdle

\* One decorated call is followed from its start to its end
RetryBegin == r_pc = "idle" /\ retry_begin /\ UNCHANGED outsideRetry
RetryInvoke == retry_invoke /\ UNCHANGED outsideRetry
RetryReturn == retry_on_return /\ UNCHANGED outsideRetry
RetryRaise ==
    \E e \in RetryErrors : retry_on_exception(e) /\ UNCHANGED outsideRetry
RetrySleep ==
    /\ retry_wake
    /\ now' = now + LastSleep
    /\ UNCHANGED <<breakerVars, callerVars, genVars, authVars, registryVars, threadVars, switchVars>>

NextRetry ==
    \/ RetryBegin
    \/ RetryInvoke
    \/ RetryReturn
    \/ RetryRaise
    \/ RetrySleep

SpecRetry == InitRetry /\ [][NextRetry]_vars

-----------------------------------------------------------------------------
(* VertexAIClient.generate (core/client.py): @retry_with_backoff(max_retries=3)
   around a body that runs the backend call through circuit_breaker.call *)

\* The client is one caller of its own breaker
Client == CHOOSE c \in Callers : TRUE

\* What the backend call (_generate_claude / _generate_gemini / _generate_qwen)
\* raises: a rate limit, the APIError _generate_gemini wraps failures in
\* (client.py:412-413), or an exception of the SDK's own
BackendErrors == {RateLimitError(None), APIError(None, None, FALSE), ValueError}

\* VertexAIClient.__init__ builds the breaker (client.py:95-101):
\* failure_threshold = config.max_retries (0..5, schemas/config.py:68-73) or 5
ClientInit ==
    /\ now = 0
    /\ state = CLOSED
    /\ failure_count = 0
    /\ last_failure_time = NoTime
    /\ success_count = 0
    /\ failure_threshold \in 0..5
    /\ recovery_timeout = 60
    /\ expected_exception = "APIError"
    /\ pc = [c \in Callers |-> "idle"]
    /\ calls = 0
    /\ invocations = 0
    /\ last_result = [kind |-> "none"]
    /\ last_op = "none"
    /\ streak = 0
    /\ entered = [c \in Callers |-> NoEntry]
    \* @retry_with_backoff(max_retries=3) with its defaults (client.py:257)
    /\ r_decorator = "retry_with_backoff"
    /\ r_max_retries = 3
    /\ r_initial_wait = 1
    /\ r_max_wait = 60
    /\ r_exp_base = 2
    /\ r_pc = "idle"
    /\ r_attempt = 1
    /\ r_trace = <<>>
    /\ r_slept = <<>>
    /\ r_result = [kind |-> "none"]
    /\ g_count0 = 0
    /\ AuthIdle
    /\ RegistryIdle
    /\ ThreadIdle /\ SwitchIdle

\* generate() is called: the retry wrapper starts (client.py:257-258)
generate_begin ==
    /\ retry_begin
    /\ g_count0' = failure_count
    /\ UNCHANGED <<now, breakerVars, callerVars, authVars, registryVars, threadVars, switchVars>>

\* The wrapper runs generate's body for one attempt (client.py:283-306)
generate_attempt ==
    /\ retry_invoke
    /\ UNCHANGED <<now, breakerVars, callerVars, genVars, authVars, registryVars, threadVars, switchVars>>

\* self.circuit_breaker.call(_generate) is entered (client.py:308); a
\* rejection is an APIError raised out of the body to the retry wrapper
generate_enter ==
    /\ r_pc = "in_call"
    /\ calls < MaxCalls
    /\ call_enter(Client)
    /\ IF state = OPEN /\ ~ShouldAttemptRecovery
       THEN retry_on_exception(BreakerOpenError)
       ELSE UNCHANGED retryVars
    /\ UNCHANGED <<genVars, authVars, registryVars, threadVars, switchVars>>

\* _generate starts inside the breaker (client.py:297-305)
generate_invoke ==
    /\ r_pc = "in_call"
    /\ call_invoke(Client)
    /\ UNCHANGED <<retryVars, genVars, authVars, registryVars, threadVars, switchVars>>

\* The backend call returned: the breaker records it, generate returns
\* response.content (client.py:308-316)
generate_return ==
    /\ r_pc = "in_call"
    /\ call_return(Client)
    /\ retry_on_return
    /\ UNCHANGED <<genVars, authVars, registryVars, threadVars, switchVars>>

\* The backend call raised e: the breaker records it if it is an APIError,
\* generate's except clause re-raises it to the retry wrapper (client.py:318-321)
generate_raise(e) ==
    /\ r_pc = "in_call"
    /\ call_raise(Client, e)
    /\ retry_on_exception(e)
    /\ UNCHANGED <<genVars, authVars, registryVars, threadVars, switchVars>>

\* The wrapper and tenacity sleep before the next attempt
generate_sleep ==
    /\ retry_wake
    /\ now' = now + LastSleep
    /\ UNCHANGED <<breakerVars, callerVars, genVars, authVars, registryVars, threadVars, switchVars>>

InitGenerate == ClientInit

GenerateBegin == generate_begin
GenerateAttempt == generate_attempt
GenerateEnter == generate_enter
GenerateInvoke == generate_invoke
GenerateReturn == generate_return
GenerateRaise == \E e \in BackendErrors : generate_raise(e)
GenerateSleep == generate_sleep
GenerateClock ==
    /\ Tick
    /\ UNCHANGED <<breakerVars, callerVars, retryVars, genVars, authVars, registryVars,
                   threadVars, switchVars>>

NextGenerate ==
    \/ GenerateBegin
    \/ GenerateAttempt
    \/ GenerateEnter
    \/ GenerateInvoke
    \/ GenerateReturn
    \/ GenerateRaise
    \/ GenerateSleep
    \/ GenerateClock

SpecGenerate == InitGenerate /\ [][NextGenerate]_vars

\* The retry variables while no decorated call is modelled
RetryIdle ==
    /\ r_decorator = "retry_with_backoff"
    /\ r_max_retries = 0
    /\ r_initial_wait = 1
    /\ r_max_wait = 1
    /\ r_exp_base = 2
    /\ r_pc = "idle"
    /\ r_attempt = 1
    /\ r_trace = <<>>
    /\ r_slept = <<>>
    /\ r_result = [kind |-> "none"]

\* Callers that share one breaker and interleave freely
Init == BreakerInit /\ RetryIdle /\ GenIdle /\ AuthIdle /\ RegistryIdle /\ ThreadIdle /\ SwitchIdle

Enter ==
    \E c \in Callers : calls < MaxCalls /\ call_enter(c) /\ UNCHANGED outsideBreaker
Invoke == \E c \in Callers : call_invoke(c) /\ UNCHANGED outsideBreaker
Return == \E c \in Callers : call_return(c) /\ UNCHANGED outsideBreaker
Raise == \E c \in Callers, e \in FuncErrors : call_raise(c, e) /\ UNCHANGED outsideBreaker
Reset == reset /\ UNCHANGED outsideBreaker
Clock == Tick /\ UNCHANGED <<breakerVars, callerVars, outsideBreaker>>

Next ==
    \/ Enter
    \/ Invoke
    \/ Return
    \/ Raise
    \/ Reset
    \/ Clock

Spec == Init /\ [][Next]_vars

\* Several callers share one breaker and interleave freely: a breaker that
\* opens after one or two failures and recovers after one tick, each caller
\* making at most a few calls
SharedThresholds == {1, 2}
SharedRecoveryTimeout == 1
MaxSharedCalls == NumCallers + 2
MaxSharedTime == SharedRecoveryTimeout + 1

InitShared ==
    /\ Init
    /\ failure_threshold \in SharedThresholds
    /\ recovery_timeout = SharedRecoveryTimeout

SharedEnter ==
    \E c \in Callers :
        calls < MaxSharedCalls /\ call_enter(c) /\ UNCHANGED outsideBreaker
SharedClock == now < MaxSharedTime /\ Clock

NextShared ==
    \/ SharedEnter
    \/ Invoke
    \/ Return
    \/ Raise
    \/ Reset
    \/ SharedClock

SpecShared == InitShared /\ [][NextShared]_vars

\* One call at a time: an operation starts only when no call is in progress
SeqEnter == AllIdle /\ Enter
SeqReset == AllIdle /\ Reset

NextSequential ==
    \/ SeqEnter
    \/ Invoke
    \/ Return
    \/ Raise
    \/ SeqReset
    \/ Clock

SpecSequential == Init /\ [][NextSequential]_vars

\* Calls keep arriving, time keeps advancing, and from some point on the
\* wrapped function only succeeds: the function may raise only while a later
\* call and the time to wait out the recovery timeout are still within the
\* bounds. Only the arrivals that the breaker admits are followed: a rejected
\* call changes nothing in the breaker.
LiveEnter ==
    /\ ~( state = OPEN /\ ~ShouldAttemptRecovery )
    /\ SeqEnter
LiveRaise ==
    /\ calls < MaxCalls
    /\ now + recovery_timeout <= MaxTime
    /\ Raise

NextLive ==
    \/ LiveEnter
    \/ Invoke
    \/ Return
    \/ LiveRaise
    \/ SeqReset
    \/ Clock

\* Every thread gets to run (the lock is always released, retry.py:91-104,
\* 125, 138) and the clock ticks
Fairness ==
    /\ WF_vars(LiveEnter)
    /\ WF_vars(Invoke)
    /\ WF_vars(Return)
    /\ WF_vars(Clock)

SpecLive == Init /\ [][NextLive]_vars /\ Fairness

-----------------------------------------------------------------------------
(* The AuthenticationManager's specification: one session owns the manager *)

InitAuth == BreakerIdle /\ RetryIdle /\ GenIdle /\ AuthInit /\ RegistryIdle /\ ThreadIdle /\ SwitchIdle

Authenticate ==
    \E path \in {NoPath, "arg_path"}, hint \in {"None"} \cup AuthMethods :
        authenticate(path, hint) /\ UNCHANGED outsideAuth
TryServiceAccount ==
    \E env \in {NoPath, "env_path"}, status \in FileStatuses, load \in Loads :
        try_service_account(env, status, load) /\ UNCHANGED outsideAuth
TryUserCredentials ==
    \E o \in ResolverOutcomes : try_user_credentials(o) /\ UNCHANGED outsideAuth
TryAdc ==
    \E o \in ResolverOutcomes : try_adc(o) /\ UNCHANGED outsideAuth
ValidateCredentials ==
    \E c \in Held, ok \in BOOLEAN : validate_credentials(c, ok) /\ UNCHANGED outsideAuth
RefreshCredentials ==
    \E c \in Held, ok \in BOOLEAN : refresh_credentials(c, ok) /\ UNCHANGED outsideAuth
ClearCache == clear_cache /\ UNCHANGED outsideAuth
AuthClock == now < MaxAuthTime /\ Tick /\ UNCHANGED <<outsideAuth, authVars>>

NextAuth ==
    \/ Authenticate
    \/ TryServiceAccount
    \/ TryUserCredentials
    \/ TryAdc
    \/ ValidateCredentials
    \/ RefreshCredentials
    \/ ClearCache
    \/ AuthClock

SpecAuth == InitAuth /\ [][NextAuth]_vars

-----------------------------------------------------------------------------
(* The ModelRegistry's specification *)

\* Long enough for an entry stored at time 0 to outlive the largest TTL
MaxRegistryTime == MaxTtl + 1

InitRegistry == BreakerIdle /\ RetryIdle /\ GenIdle /\ AuthIdle /\ RegistryInit /\ ThreadIdle /\ SwitchIdle

RegistryFrame == UNCHANGED <<now, m_catalog, cache_ttl, outsideRegistry>>

GetAvailableModels ==
    \E p \in Projects, r \in Regions \cup {NoRegion}, u \in BOOLEAN :
        get_available_models(p, r, u) /\ RegistryFrame
ValidateModelAvailability ==
    \E mid \in ModelIds, r \in Regions :
        validate_model_availability(mid, r) /\ RegistryFrame
ValidateVersion ==
    \E mid \in ModelIds, v \in Versions :
        validate_version(mid, v) /\ RegistryFrame
RegistryClearCache == registry_clear_cache /\ RegistryFrame
RegistryClock ==
    now < MaxRegistryTime /\ Tick /\ UNCHANGED <<outsideRegistry, registryVars>>

NextRegistry ==
    \/ GetAvailableModels
    \/ ValidateModelAvailability
    \/ ValidateVersion
    \/ RegistryClearCache
    \/ RegistryClock

SpecRegistry == InitRegistry /\ [][NextRegistry]_vars

-----------------------------------------------------------------------------
(* One VertexAIClient whose model is switched any number of times *)

InitSwitch ==
    /\ BreakerIdle /\ RetryIdle /\ GenIdle /\ AuthIdle /\ RegistryIdle /\ ThreadIdle
    /\ SwitchInit

SwitchModel ==
    \E id \in SwitchModelIds, r \in Regions \cup {NoRegion},
       v \in Versions \cup {NoVersion}, ok \in BOOLEAN :
        switch_model(id, r, v, ok) /\ UNCHANGED outsideSwitch

NextSwitch == SwitchModel

SpecSwitch == InitSwitch /\ [][NextSwitch]_vars

-----------------------------------------------------------------------------
(* Threads sharing one breaker: each makes one call and every wrapped
   function fails (test_thread_safety) *)

\* cb = CircuitBreaker(failure_threshold >= NumThreads), the other arguments
\* left at their defaults
InitThreads ==
    /\ now = 0
    /\ state = CLOSED
    /\ failure_count = 0
    /\ last_failure_time = NoTime
    /\ success_count = 0
    /\ failure_threshold \in {NumThreads, NumThreads + 1}
    /\ recovery_timeout = 60
    /\ expected_exception = "Exception"
    /\ pc = [c \in Threads |-> "idle"]
    /\ calls = 0
    /\ invocations = 0
    /\ last_result = [kind |-> "none"]
    /\ last_op = "none"
    /\ streak = 0
    /\ entered = [c \in Threads |-> NoEntry]
    /\ t_called = {}
    /\ RetryIdle /\ GenIdle /\ AuthIdle /\ RegistryIdle /\ SwitchIdle

\* A thread that has not called yet takes the lock and is admitted. The
\* threads are alike, so they are numbered in the order in which they get
\* the lock.
ThreadEnter ==
    \E c \in Threads :
        /\ c \notin t_called
        /\ \A d \in Threads : d < c => d \in t_called
        /\ call_enter(c)
        /\ t_called' = t_called \cup {c}
        /\ UNCHANGED <<retryVars, genVars, authVars, registryVars, switchVars>>
ThreadInvoke == \E c \in Threads : call_invoke(c) /\ UNCHANGED outsideBreaker
ThreadRaise ==
    \E c \in Threads :
        call_raise(c, APIError(500, None, TRUE)) /\ UNCHANGED outsideBreaker

NextThreads ==
    \/ ThreadEnter
    \/ ThreadInvoke
    \/ ThreadRaise

SpecThreads == InitThreads /\ [][NextThreads]_vars

-----------------------------------------------------------------------------
(* Properties of the circuit breaker under sequential calls *)

\* The recovery timeout has not elapsed since the last recorded failure
BeforeTimeout ==
    last_failure_time # NoTime /\ (now - last_failure_time) < recovery_timeout

\* The recovery timeout has elapsed since the last recorded failure
TimeoutElapsed ==
    last_failure_time # NoTime /\ (now - last_failure_time) >= recovery_timeout

\* C1: for every failure_threshold T >= 1, the T-th (and any later) consecutive
\* call whose function raises the expected exception, counted from a CLOSED
\* breaker with failure_count 0 with no success and no reset in between,
\* leaves the state OPEN; and a call made while the breaker is OPEN and the
\* recovery timeout has not elapsed raises the breaker-open error without
\* starting the wrapped function.
C1_OpensAtThreshold ==
    [][ /\ ( /\ failure_threshold >= 1
             /\ streak' = streak + 1
             /\ streak' >= failure_threshold ) => state' = OPEN
        /\ ( /\ calls' = calls + 1
             /\ state = OPEN
             /\ BeforeTimeout ) =>
                /\ last_result'.kind = "raised"
                /\ last_result'.exc = BreakerOpenError
                /\ invocations' = invocations
                /\ pc' = pc
      ]_vars

\* C1 witness: a threshold of at least 2 was reached by consecutive failures
\* and the call after them was rejected
C1_Witness ==
    /\ failure_threshold >= 2
    /\ streak = failure_threshold
    /\ last_op = "rejected"
    /\ state = OPEN
    /\ invocations = failure_threshold
    /\ calls = failure_threshold + 1

\* A call finishes for caller c
Finishes(c) == pc[c] = "running" /\ pc'[c] = "idle"

-----------------------------------------------------------------------------
(* Properties of the retry decorators *)

IsErr(o) == o.cls # "return"

\* A transient error, as should_retry (retry.py:222-230) classifies it
Transient(o) == IsErr(o) /\ should_retry(o)

AllTransient(seq) == \A i \in 1..Len(seq) : Transient(seq[i])

RetryRunning == r_pc \in {"ready", "in_call", "sleeping"}

\* C4: while the function has raised transient errors on its first k
\* invocations, k <= max_retries, the decorated call goes on to invocation
\* k+1; and when invocation k+1 returns a value the decorated call has made
\* exactly k+1 invocations and returns that value.
C4_RetriesThenReturns ==
    \A k \in 0..r_max_retries :
        ( Len(r_trace) >= k /\ \A i \in 1..k : Transient(r_trace[i]) ) =>
            /\ ( Len(r_trace) = k /\ r_pc # "idle" ) => RetryRunning
            /\ ( Len(r_trace) > k /\ ~IsErr(r_trace[k + 1]) ) =>
                    /\ Len(r_trace) = k + 1
                    /\ r_pc = "returned"
                    /\ r_result = [kind |-> "returned", value |-> ReturnValue(k + 1)]

\* C4 witness: max_retries = 2, two transient failures, then the third
\* invocation's value is returned
C4_Witness ==
    /\ r_max_retries = 2
    /\ Len(r_trace) = 3
    /\ Transient(r_trace[1])
    /\ Transient(r_trace[2])
    /\ r_pc = "returned"
    /\ r_result = [kind |-> "returned", value |-> ReturnValue(3)]

\* C5 as stated: an API error that is not classified transient (retryable flag
\* false, or ModelNotFoundError) ends the decorated call at its first
\* occurrence: no further invocation, and that same error reaches the caller.
C5_NonTransientNotRetried ==
    \A i \in 1..Len(r_trace) :
        ( /\ IsErr(r_trace[i])
          /\ IsInstance(r_trace[i], {"APIError"})
          /\ ~should_retry(r_trace[i]) ) =>
            /\ i = Len(r_trace)
            /\ r_pc = "raised"
            /\ r_result = [kind |-> "raised", exc |-> r_trace[i], attempt |-> i]

\* C6: a function that raises a transient error on every invocation is
\* invoked exactly max_retries + 1 times (the decorated call is not over
\* before, and makes no invocation after), and the decorated call then raises
\* the exception of invocation max_retries + 1 itself, not a wrapper.
C6_ExhaustedReraisesLast ==
    AllTransient(r_trace) =>
        /\ Len(r_trace) <= r_max_retries + 1
        /\ Len(r_trace) <= r_max_retries => r_pc \notin {"returned", "raised"}
        /\ Len(r_trace) = r_max_retries + 1 =>
                /\ r_pc = "raised"
                /\ r_result = [kind |-> "raised",
                               exc |-> r_trace[r_max_retries + 1],
                               attempt |-> r_max_retries + 1]

\* C6 witness: max_retries = 2, three transient failures, the third raised
C6_Witness ==
    /\ r_max_retries = 2
    /\ Len(r_trace) = 3
    /\ AllTransient(r_trace)
    /\ r_pc = "raised"
    /\ r_result.exc = r_trace[3]
    /\ r_trace[3] # r_trace[2]

\* C7: under retry_with_backoff an exception whose type is not among the
\* retryable error types ends the decorated call at its first occurrence
\* (a function that raises it is invoked exactly once) and reaches the caller
\* unchanged, whatever max_retries is.
C7_UnlistedTypePropagates ==
    r_decorator = "retry_with_backoff" =>
        \A i \in 1..Len(r_trace) :
            ( IsErr(r_trace[i]) /\ ~IsInstance(r_trace[i], RetryTypes) ) =>
                /\ i = Len(r_trace)
                /\ r_pc = "raised"
                /\ r_result = [kind |-> "raised", exc |-> r_trace[i], attempt |-> i]

\* C7 witness: max_retries = 3, the first invocation raised ValueError and
\* the decorated call raised it
C7_Witness ==
    /\ r_decorator = "retry_with_backoff"
    /\ r_max_retries = 3
    /\ r_trace = <<ValueError>>
    /\ r_pc = "raised"
    /\ r_result.exc = ValueError

-----------------------------------------------------------------------------
(* Properties of VertexAIClient.generate *)

\* C3 as stated: the breaker records one verdict per generate() call, so
\* while a generate() call whose attempts failed transiently runs, and when
\* it is over, the breaker's failure_count is at most 1 above its value when
\* the call began, however many retry attempts the call has made.
C3_OneVerdictPerGenerate ==
    ( r_pc # "idle" /\ AllTransient(r_trace) ) => failure_count <= g_count0 + 1

-----------------------------------------------------------------------------
(* Properties of the AuthenticationManager *)

Strategies == {"service_account", "user_credentials", "adc"}

\* A strategy has just been invoked: the call's record of invocations grew
StrategyInvoked == Len(a_invoked') = Len(a_invoked) + 1

CacheEntryExpired ==
    \/ a_cache.expires_at # NoTime /\ now >= a_cache.expires_at
    \/ a_creds[a_cache.cred].expiry # NoTime /\ now >= a_creds[a_cache.cred].expiry

\* A call of authenticate begins: it is answered from the cache or goes on
\* to a strategy
AuthenticateCalled ==
    /\ a_calls' = a_calls + 1
    /\ \/ a_result'.kind = "pending"
       \/ a_result'.kind = "returned" /\ a_result'.from_cache

\* C9: whatever hints are passed, an authenticate call that finds a cached
\* credential that is not expired returns that credential, invokes no
\* strategy and leaves the cache as it was; one that finds an expired cached
\* credential returns nothing from the cache and goes on to a strategy.
C9_CacheHitOrRerun ==
    [][ ( AuthenticateCalled /\ a_cache # NoCache ) =>
          IF ~CacheEntryExpired
          THEN /\ a_result' = [kind |-> "returned", cred |-> a_cache.cred,
                               from_cache |-> TRUE]
               /\ a_pc' = "idle"
               /\ a_invoked' = <<>>
               /\ a_cache' = a_cache
               /\ a_next' = a_next
          ELSE /\ a_result'.kind = "pending"
               /\ a_pc' \in Strategies
      ]_vars

\* C9 witness: a second authenticate call was answered from the cache
C9_Witness ==
    /\ a_calls >= 2
    /\ a_pc = "idle"
    /\ a_result.kind = "returned" /\ a_result.from_cache
    /\ a_invoked = <<>>
    /\ a_cache # NoCache /\ a_cache.cred = a_result.cred

\* C10: when the service_account strategy finds that its resolved path is
\* not a regular file, or that the file does not parse, authenticate raises
\* AuthenticationError (AUTH_002) with no further strategy invoked; when no
\* path resolves or the file is missing the strategy reports no match and
\* AUTO goes on to user_credentials.
C10_FatalOrSkip ==
    [][ ( StrategyInvoked
          /\ a_invoked'[Len(a_invoked')].strategy = "service_account" ) =>
          LET e == a_invoked'[Len(a_invoked')]
          IN  /\ e.status \in {"not_file", "corrupt"} =>
                    /\ a_result' = AuthenticationError("AUTH_002")
                    /\ a_pc' = "idle"
                    /\ Len(a_invoked') = 1
              /\ e.status \in {"unresolved", "missing"} =>
                    /\ e.res = "none"
                    /\ a_method' = "auto" =>
                          /\ a_pc' = "user_credentials"
                          /\ a_result'.kind = "pending"
      ]_vars

\* C10 witness: an AUTO call met a corrupt service-account file and raised
\* AUTH_002 with only service_account invoked
C10_Witness ==
    /\ a_method = "auto"
    /\ Len(a_invoked) = 1
    /\ a_invoked[1].strategy = "service_account"
    /\ a_invoked[1].status = "corrupt"
    /\ a_pc = "idle"
    /\ a_result = AuthenticationError("AUTH_002")

\* Every strategy the method selects has been invoked and reported no match
Exhausted(method, invoked) ==
    /\ \A i \in 1..Len(invoked) : invoked[i].res = "none"
    /\ IF method = "auto"
       THEN Len(invoked) = 3
       ELSE Len(invoked) = 1 /\ invoked[1].strategy = method

\* C11: authenticate raises AuthenticationError AUTH_001, carrying a
\* suggested fix, exactly at the step where the last strategy the method
\* selects has reported no match: the third in AUTO mode, the single named
\* one for an explicit method, which is then the only strategy invoked; no
\* other step produces AUTH_001.
C11_Auth001WhenExhausted ==
    [][ /\ StrategyInvoked =>
              /\ ( a_result' = AuthenticationError("AUTH_001")
                     <=> Exhausted(a_method, a_invoked') )
              /\ Exhausted(a_method, a_invoked') =>
                     a_pc' = "idle" /\ a_result'.suggested_fix
              /\ a_method # "auto" =>
                     /\ Len(a_invoked') = 1
                     /\ a_invoked'[1].strategy = a_method
                     /\ a_pc' = "idle"
        /\ ( ~StrategyInvoked /\ a_result' # a_result ) =>
              a_result' # AuthenticationError("AUTH_001")
      ]_vars

\* C11 witness: an AUTO call whose three strategies all reported no match
\* has raised AUTH_001
C11_Witness ==
    /\ a_method = "auto"
    /\ Len(a_invoked) = 3
    /\ \A i \in 1..3 : a_invoked[i].res = "none"
    /\ a_pc = "idle"
    /\ a_result = AuthenticationError("AUTH_001")

-----------------------------------------------------------------------------
(* Properties of the ModelRegistry *)

\* The catalog entries whose id is model_id, compared without regard to case
CatalogEntries(model_id) ==
    {i \in 1..Len(m_catalog) : m_catalog[i].model_id = lower(model_id)}

CatalogEntry(model_id) == m_catalog[CHOOSE i \in CatalogEntries(model_id) : TRUE]

\* C12: validate_model_availability(model, region) returns true when the
\* model is in the catalog and region is one of its available regions; for a
\* catalog model and another region it raises ModelNotFoundError whose
\* available_regions is the model's full, non-empty region list; for a model
\* that is not in the catalog it raises ModelNotFoundError with an empty
\* available_regions.
C12_AvailabilityVerdict ==
    m_result.call.op = "validate_model_availability" =>
        LET model_id == m_result.call.model_id
            region == m_result.call.region
        IN  IF CatalogEntries(model_id) = {}
            THEN /\ m_result.kind = "raised"
                 /\ m_result.exc = ModelNotFoundError
                 /\ m_result.available_regions = <<>>
            ELSE IF InList(region, CatalogEntry(model_id).available_regions)
            THEN m_result.kind = "returned" /\ m_result.value = TRUE
            ELSE /\ m_result.kind = "raised"
                 /\ m_result.exc = ModelNotFoundError
                 /\ m_result.available_regions = CatalogEntry(model_id).available_regions
                 /\ Len(m_result.available_regions) > 0

\* C12 witness: a catalog model with two regions was asked for in a third
\* and the error carries both
C12_Witness ==
    /\ m_result.call.op = "validate_model_availability"
    /\ m_result.call.model_id = "custom/unversioned"
    /\ m_result.call.region = "all"
    /\ m_result.kind = "raised"
    /\ m_result.available_regions = <<"global", "us-west2">>

\* A step of get_available_models with use_cache=true
CachedGetStep ==
    /\ now' = now
    /\ m_result'.call.op = "get_available_models"
    /\ m_result'.call.use_cache

\* C13: a get_available_models call with use_cache=true that finds an entry
\* stored by a call with the same project and region less than cache_ttl
\* seconds ago returns the stored list without rebuilding it and leaves the
\* cache and its timestamps as they were; one that finds an entry older
\* than cache_ttl rebuilds the list from the catalog and overwrites the
\* entry and its timestamp.
C13_CachedWithinTtl ==
    [][ CachedGetStep =>
          LET project_id == m_result'.call.project_id
              region == m_result'.call.region
              key == cache_key(project_id, region)
          IN  /\ ( /\ key \in DOMAIN m_cache
                   /\ m_stored[key] = [project_id |-> project_id, region |-> region]
                   /\ now - m_cache_timestamp[key] < cache_ttl ) =>
                     /\ ~m_result'.rebuilt
                     /\ m_result'.value = m_cache[key]
                     /\ m_cache' = m_cache
                     /\ m_cache_timestamp' = m_cache_timestamp
              /\ ( /\ key \in DOMAIN m_cache
                   /\ now - m_cache_timestamp[key] > cache_ttl ) =>
                     /\ m_result'.rebuilt
                     /\ m_result'.value = build_models(region)
                     /\ m_cache'[key] = build_models(region)
                     /\ m_cache_timestamp'[key] = now
      ]_vars

\* C13 witness: a second call, made after the clock moved but within the
\* TTL, was answered with the stored list
C13_Witness ==
    /\ m_result.call.op = "get_available_models"
    /\ m_result.call.use_cache
    /\ ~m_result.rebuilt
    /\ LET key == cache_key(m_result.call.project_id, m_result.call.region)
       IN  /\ key \in DOMAIN m_cache
           /\ m_stored[key] = [project_id |-> m_result.call.project_id,
                               region |-> m_result.call.region]
           /\ m_cache_timestamp[key] < now
           /\ m_result.value = m_cache[key]
           /\ Len(m_result.value) > 0

\* C20: validate_version(model, version) for a catalog model returns true
\* when version is in the model's versions list or the list is empty, and
\* raises ModelNotFoundError when the list is non-empty and lacks version; for
\* a model that is not in the catalog it raises ModelNotFoundError.
C20_VersionVerdict ==
    m_result.call.op = "validate_version" =>
        LET model_id == m_result.call.model_id
            version == m_result.call.version
        IN  IF CatalogEntries(model_id) = {}
            THEN m_result.kind = "raised" /\ m_result.exc = ModelNotFoundError
            ELSE IF \/ InList(version, CatalogEntry(model_id).versions)
                    \/ CatalogEntry(model_id).versions = <<>>
            THEN m_result.kind = "returned" /\ m_result.value = TRUE
            ELSE m_result.kind = "raised" /\ m_result.exc = ModelNotFoundError

\* C20 witness: a catalog model with an empty versions list accepted a
\* version string
C20_Witness ==
    /\ m_result.call.op = "validate_version"
    /\ CatalogEntries(m_result.call.model_id) # {}
    /\ CatalogEntry(m_result.call.model_id).versions = <<>>
    /\ m_result.call.version = "v1"
    /\ m_result.kind = "returned"

-----------------------------------------------------------------------------
(* Properties of threads sharing one breaker *)

\* The threads whose call is over
Finished == {c \in t_called : pc[c] = "idle"}

\* C14: with NumThreads threads each making one call whose function fails, on
\* a breaker that starts CLOSED with failure_threshold >= NumThreads, every
\* finished call has added exactly one to failure_count under every
\* interleaving, so once all threads are back failure_count = NumThreads.
C14_NoLostIncrement ==
    /\ failure_count = Cardinality(Finished)
    /\ Finished = Threads => failure_count = NumThreads

\* C14 witness: all threads are back, failure_count is NumThreads and the
\* last failure opened the breaker whose threshold is NumThreads
C14_Witness ==
    /\ Finished = Threads
    /\ failure_count = NumThreads
    /\ failure_threshold = NumThreads
    /\ state = OPEN
    /\ invocations = NumThreads

-----------------------------------------------------------------------------
(* Properties of the breaker-open error *)

\* C15 as stated: the error CircuitBreaker.call raises when it rejects a call
\* on an OPEN breaker has retryable = false, and a generate() call that meets
\* it makes no further attempt and raises it to its caller.
C15_BreakerOpenNotRetried ==
    \A i \in 1..Len(r_trace) :
        ( IsErr(r_trace[i]) /\ r_trace[i].origin = "breaker_open" ) =>
            /\ ~r_trace[i].retryable
            /\ i = Len(r_trace)
            /\ r_pc = "raised"
            /\ r_result = [kind |-> "raised", exc |-> r_trace[i], attempt |-> i]

-----------------------------------------------------------------------------
(* Properties of the breaker's failure, reset and success rules *)

\* The failure transition rule of _on_failure, as a relation between the
\* breaker before and after
FailureRuleApplied ==
    /\ failure_count' = failure_count + 1
    /\ last_failure_time' = now
    /\ state' = IF state = HALF_OPEN \/ ( state = CLOSED
                                          /\ failure_count + 1 >= failure_threshold )
                THEN OPEN
                ELSE state

\* The wrapped function of caller c raised and the call is over
RaisedBy(c) == Finishes(c) /\ last_result'.kind = "raised"

\* C16 as stated: whenever the wrapped function raises, whatever the
\* exception's type, the breaker applies the failure transition rule for its
\* current state and re-raises that same exception.
C16_EveryRaiseCounts ==
    [][ \A c \in Callers :
            RaisedBy(c) =>
                /\ FailureRuleApplied
                /\ last_result'.exc \in FuncErrors
      ]_vars

\* C16 amended: the failure transition rule is applied when the raised
\* exception is an instance of the breaker's expected_exception; an exception
\* of any other type leaves state, counters and last_failure_time as they
\* were. In both cases the call raises the function's own exception.
C16_ExpectedRaiseCounts ==
    [][ \A c \in Callers :
            RaisedBy(c) =>
                /\ last_result'.exc \in FuncErrors
                /\ IsInstance(last_result'.exc, {expected_exception}) =>
                        FailureRuleApplied
                /\ ~IsInstance(last_result'.exc, {expected_exception}) =>
                        UNCHANGED <<state, failure_count, success_count,
                                    last_failure_time>>
      ]_vars

\* C16 witness: with expected_exception = APIError a RateLimitError raised by
\* the function was counted and opened the breaker at a threshold of 2, and
\* the call raised that RateLimitError
C16_Witness ==
    /\ expected_exception = "APIError"
    /\ failure_threshold = 2
    /\ last_op = "failure"
    /\ last_result = [kind |-> "raised", exc |-> RateLimitError(None), from |-> CLOSED]
    /\ failure_count = 2
    /\ last_failure_time = now
    /\ state = OPEN

\* A step of reset(): no call starts, runs or ends and no time passes
ResetStep ==
    /\ last_op' = "reset"
    /\ UNCHANGED <<now, pc, calls, invocations, last_result>>

\* C17: from every reachable breaker state reset() leaves state CLOSED, both
\* counters 0 and last_failure_time cleared, whether or not the recovery
\* timeout has elapsed, and the next call after it is admitted, so that it
\* invokes the wrapped function.
C17_ResetCloses ==
    [][ /\ ResetStep =>
                /\ state' = CLOSED
                /\ failure_count' = 0
                /\ success_count' = 0
                /\ last_failure_time' = NoTime
        /\ ( last_op = "reset" /\ calls' = calls + 1 ) =>
                /\ \E c \in Callers : pc[c] = "idle" /\ pc'[c] = "admitted"
                /\ last_result' = last_result
        /\ \A c \in Callers :
                ( last_op = "reset" /\ pc[c] = "admitted" /\ pc'[c] # "admitted" ) =>
                    pc'[c] = "running" /\ invocations' = invocations + 1
      ]_vars

\* C17 witness: a threshold of 1 was reached at time 0 with a recovery timeout
\* of at least 1, reset() was called at time 0, and the second call is
\* running the wrapped function
C17_Witness ==
    /\ failure_threshold = 1
    /\ recovery_timeout >= 1
    /\ now = 0
    /\ expected_exception = "APIError"
    /\ last_result = [kind |-> "raised", exc |-> APIError(500, None, TRUE), from |-> CLOSED]
    /\ last_op = "reset"
    /\ calls = 2
    /\ invocations = 2
    /\ \E c \in Callers : pc[c] = "running"
    /\ state = CLOSED
    /\ failure_count = 0
    /\ last_failure_time = NoTime

\* C18: whenever the wrapped function returns and the breaker is CLOSED when
\* the success is recorded, failure_count is 0 and the state is CLOSED
\* afterwards, whatever failure_count was before.
C18_SuccessClearsCount ==
    [][ \A c \in Callers :
            ( Finishes(c) /\ last_result'.kind = "returned" /\ state = CLOSED ) =>
                /\ failure_count' = 0
                /\ state' = CLOSED
      ]_vars

\* C18 witness: a call admitted while CLOSED returned on a breaker with
\* threshold 3 that had recorded a failure, and the count is 0 again
C18_Witness ==
    /\ failure_threshold = 3
    /\ last_op = "success"
    /\ last_result = [kind |-> "returned", from |-> CLOSED]
    /\ last_failure_time # NoTime
    /\ success_count = 0
    /\ state = CLOSED
    /\ failure_count = 0

-----------------------------------------------------------------------------
(* Properties of the waits between retries *)

\* Failed invocation k of the current decorated call was followed by a wait
\* and a retry, or is being followed by one
WaitedAfter(k) == k < Len(r_trace) \/ ( k = Len(r_trace) /\ r_pc = "sleeping" )

\* C19 as stated: the time waited before retry number i (i = 0 for the first
\* retry, which follows failed invocation i + 1) is the exception's
\* retry_after when it carries one, and min(max_wait, initial_wait *
\* exponential_base^i) otherwise; the exponential wait is not added to a
\* retry_after hint.
C19_HintReplacesBackoff ==
    \A i \in 0..(Len(r_slept) - 1) :
        WaitedAfter(i + 1) =>
            r_slept[i + 1].hint + r_slept[i + 1].backoff =
                IF r_trace[i + 1].retry_after # None
                THEN r_trace[i + 1].retry_after
                ELSE Min(r_max_wait, r_initial_wait * Pow(r_exp_base, i))

-----------------------------------------------------------------------------
(* Properties of refresh_credentials and validate_credentials *)

\* The cache entry holds credential c, valid and not expired, with c's expiry
CacheHolds(c) ==
    /\ a_cache' # NoCache
    /\ a_cache'.cred = c
    /\ a_cache'.valid
    /\ ~a_cache'.expired
    /\ a_cache'.expires_at = a_creds'[c].expiry

\* C21 as stated: after refresh_credentials(cred) succeeds the manager holds
\* a cache entry for cred, valid, not expired, with cred's expiry, also when
\* nothing was cached before; when cred cannot be refreshed the call raises
\* AuthenticationError and the cache is unchanged.
C21_RefreshAlwaysCaches ==
    [][ \A c \in Held, ok \in BOOLEAN :
            refresh_credentials(c, ok) =>
                /\ ( c # NoCred /\ ok ) =>
                        a_result'.kind = "refreshed" /\ CacheHolds(c)
                /\ ~( c # NoCred /\ ok ) =>
                        /\ a_result' = AuthenticationError("AUTH_003")
                        /\ a_cache' = a_cache
      ]_vars

\* C22: validate_credentials(cred) raises AuthenticationError when cred is
\* None; returns true without refreshing when cred has no expiry or an expiry
\* still ahead; and for a cred whose expiry has been reached refreshes once,
\* returning true when the refresh works and raising AuthenticationError when
\* it throws. The cache is never touched.
C22_ValidateVerdict ==
    [][ \A c \in Held, ok \in BOOLEAN :
            validate_credentials(c, ok) =>
                /\ a_cache' = a_cache
                /\ c = NoCred =>
                        a_result' = AuthenticationError("AUTH_003") /\ a_creds' = a_creds
                /\ ( c # NoCred /\ ( a_creds[c].expiry = NoTime \/ now < a_creds[c].expiry ) ) =>
                        /\ a_result' = [kind |-> "validated", refreshed |-> FALSE]
                        /\ a_creds' = a_creds
                /\ ( c # NoCred /\ a_creds[c].expiry # NoTime /\ now >= a_creds[c].expiry ) =>
                        IF ok
                        THEN /\ a_result' = [kind |-> "validated", refreshed |-> TRUE]
                             /\ a_creds' = [a_creds EXCEPT ![c].expiry = now + TokenLifetime]
                        ELSE /\ a_result' = AuthenticationError("AUTH_003")
                             /\ a_creds' = a_creds
      ]_vars

\* C22 witness: a credential validated at the very instant of its expiry was
\* refreshed and the call returned true
C22_Witness ==
    /\ a_result = [kind |-> "validated", refreshed |-> TRUE]
    /\ now = TokenLifetime
    /\ \E c \in Held : c # NoCred /\ a_creds[c].expiry = now + TokenLifetime
    /\ a_calls = 2

-----------------------------------------------------------------------------
(* Properties of the user_credentials strategy *)

-----------------------------------------------------------------------------
(* Properties of the registry's cache maps *)

\* C24: the cache map and the timestamp map always have the same keys; after
\* clear_cache() both are empty; and a get_available_models call that comes
\* next after clear_cache() builds its list anew from the catalog.
C24_ClearedAndAligned ==
    [][ /\ DOMAIN m_cache = DOMAIN m_cache_timestamp
        /\ DOMAIN m_cache' = DOMAIN m_cache_timestamp'
        /\ m_result'.call.op = "clear_cache" =>
                m_cache' = <<>> /\ m_cache_timestamp' = <<>>
        /\ ( /\ m_result.call.op = "clear_cache"
             /\ m_result'.call.op = "get_available_models" ) =>
                /\ m_result'.rebuilt
                /\ m_result'.value = build_models(m_result'.call.region)
                /\ m_result'.call.use_cache =>
                        DOMAIN m_cache' =
                            {cache_key(m_result'.call.project_id, m_result'.call.region)}
      ]_vars

\* C24 witness: clear_cache() has just dropped two entries that were still
\* within the TTL, and nothing is left in either map
C24_Witness ==
    /\ m_result.call.op = "clear_cache"
    /\ m_result.dropped = 2
    /\ now = 0
    /\ cache_ttl >= 1
    /\ m_cache = <<>>
    /\ m_cache_timestamp = <<>>

-----------------------------------------------------------------------------
(* Properties of generate() under transient failures *)

\* The backend failures of the current generate() call, in order
UpstreamFailures ==
    SelectSeq(r_trace, LAMBDA o : IsErr(o) /\ o.origin = "upstream")

\* C25 as stated: a generate() call that starts on a CLOSED breaker with no
\* recorded failure, and whose backend has failed only transiently and on no
\* more attempts than the retry budget, is never turned away by the breaker
\* and never raises; when the backend then succeeds the call returns that
\* value and the breaker is CLOSED, for every failure threshold of at least 1.
C25_BlipsWithinBudgetSucceed ==
    ( /\ failure_threshold >= 1
      /\ g_count0 = 0
      /\ r_pc # "idle"
      /\ AllTransient(UpstreamFailures)
      /\ Len(UpstreamFailures) <= r_max_retries ) =>
        /\ \A i \in 1..Len(r_trace) :
                IsErr(r_trace[i]) => r_trace[i].origin # "breaker_open"
        /\ r_pc # "raised"
        /\ r_pc = "returned" =>
                /\ state = CLOSED
                /\ r_result = [kind |-> "returned", value |-> ReturnValue(Len(r_trace))]

-----------------------------------------------------------------------------
(* Properties of the breaker's state machine under shared use *)

\* A call ends with a recorded failure, or with a return
FailureStep == last_op' = "failure" /\ \E c \in Callers : RaisedBy(c)
SuccessStep == \E c \in Callers : Finishes(c) /\ last_result'.kind = "returned"

\* C26: every change of the breaker's state is CLOSED to OPEN by a failure
\* that brings failure_count to the threshold, OPEN to HALF_OPEN by a call
\* arriving once the recovery timeout has elapsed, HALF_OPEN to CLOSED by a
\* success, HALF_OPEN to OPEN by a failure, or any state to CLOSED by reset().
C26_OnlyListedTransitions ==
    [][ state' # state =>
            \/ /\ state = CLOSED /\ state' = OPEN
               /\ FailureStep
               /\ failure_count' >= failure_threshold
            \/ /\ state = OPEN /\ state' = HALF_OPEN
               /\ calls' = calls + 1
               /\ TimeoutElapsed
            \/ /\ state = HALF_OPEN /\ state' = CLOSED
               /\ SuccessStep
            \/ /\ state = HALF_OPEN /\ state' = OPEN
               /\ FailureStep
            \/ /\ state' = CLOSED
               /\ ResetStep
      ]_vars

\* C26 witness: the breaker opened at its threshold, let a probe through
\* after the timeout, and the probe's failure opened it again
C26_Witness ==
    /\ state = OPEN
    /\ last_op = "failure"
    /\ last_result.kind = "raised"
    /\ last_result.from = OPEN
    /\ failure_count = failure_threshold + 1
    /\ last_failure_time = now
    /\ now >= recovery_timeout

\* C27: failure_count goes down only to 0 and only in a step that leaves the
\* breaker CLOSED, namely a success recorded in HALF_OPEN or CLOSED, or
\* reset(); every recorded failure, also one recorded while the breaker is
\* OPEN or HALF_OPEN or one that opens it, adds exactly 1.
C27_CountOnlyZeroedIntoClosed ==
    [][ /\ failure_count' < failure_count =>
                /\ failure_count' = 0
                /\ state' = CLOSED
                /\ \/ SuccessStep /\ state \in {HALF_OPEN, CLOSED}
                   \/ ResetStep
        /\ FailureStep => failure_count' = failure_count + 1
        /\ ( state # OPEN /\ state' = OPEN ) => failure_count' = failure_count + 1
      ]_vars

\* C27 witness: a call admitted while the breaker was CLOSED recorded its
\* failure after another caller had opened the breaker, and the count went
\* past the threshold
C27_Witness ==
    /\ state = OPEN
    /\ last_op = "failure"
    /\ last_result.from = CLOSED
    /\ failure_count = failure_threshold + 1
    /\ invocations = failure_count
    /\ now = 0

\* Caller c is admitted, or starts its wrapped function
Admitted(c) == pc[c] = "idle" /\ pc'[c] = "admitted"
Starts(c) == pc[c] = "admitted" /\ pc'[c] = "running"

\* C29 as stated: with several callers, no invocation of a wrapped function
\* begins while the breaker is OPEN and the recovery timeout has not elapsed.
C29_NoStartWhileOpen ==
    [][ \A c \in Callers : Starts(c) => ~( state = OPEN /\ BeforeTimeout ) ]_vars

\* C29 amended: with several callers, no call is admitted while the breaker
\* is OPEN and the recovery timeout has not elapsed, and an admitted call
\* leaves the breaker CLOSED or HALF_OPEN; the function of an admitted call
\* starts later, whatever the state has become by then, and is invoked once.
C29_NoAdmissionWhileOpen ==
    [][ \A c \in Callers :
            /\ Admitted(c) =>
                    /\ ~( state = OPEN /\ BeforeTimeout )
                    /\ state' # OPEN
            /\ Starts(c) =>
                    /\ invocations' = invocations + 1
                    /\ UNCHANGED <<state, failure_count, success_count, last_failure_time>>
      ]_vars

\* C29 witness: a caller was admitted while the breaker was CLOSED, another
\* caller's failure has opened the breaker since, the timeout has not
\* elapsed, and the admitted caller's function is about to start
C29_Witness ==
    /\ state = OPEN
    /\ BeforeTimeout
    /\ \E c \in Callers : pc[c] = "admitted" /\ entered[c].from = CLOSED
    /\ last_op = "failure"

\* C30 as stated: once a probe has been let through after the recovery
\* timeout, a caller arriving while the state is HALF_OPEN and the probe is
\* still in progress is not admitted, and among the calls admitted since the
\* breaker opened at most one is running while the state is HALF_OPEN.
C30_SingleProbe ==
    [][ /\ \A c \in Callers :
            ( /\ Admitted(c)
              /\ state = HALF_OPEN
              /\ \E d \in Callers \ {c} :
                    pc[d] \in {"admitted", "running"} /\ entered[d].from = OPEN ) =>
                FALSE
        /\ state' = HALF_OPEN =>
            Cardinality({ c \in Callers :
                            /\ pc'[c] = "running"
                            /\ entered'[c].from \in {OPEN, HALF_OPEN} }) <= 1
      ]_vars

-----------------------------------------------------------------------------
(* Liveness of the breaker *)

\* C28: if calls keep arriving, time keeps advancing and the wrapped function
\* succeeds on every invocation from some point on, the breaker eventually
\* becomes CLOSED and stays CLOSED.
C28_EventuallyClosedForGood == <>[](state = CLOSED)

\* C28 witness: a probe raised an exception the breaker does not count and
\* left it HALF_OPEN; the next call was admitted, succeeded, and closed it
C28_Witness ==
    /\ state = CLOSED
    /\ last_op = "success"
    /\ last_result = [kind |-> "returned", from |-> HALF_OPEN]
    /\ failure_count = 0
    /\ last_failure_time # NoTime

\* C31: in every reachable state of a breaker with failure_threshold >= 1,
\* with callers interleaving and reset() at any time, a CLOSED breaker has
\* failure_count below the threshold and an OPEN breaker has
\* last_failure_time set.
C31_ClosedBelowThresholdOpenStamped ==
    failure_threshold >= 1 =>
        /\ state = CLOSED => failure_count < failure_threshold
        /\ state = OPEN => last_failure_time # NoTime

\* C31 witness: with a threshold of 2 the breaker is CLOSED with one recorded
\* failure, while another caller's function is still running
C31_Witness ==
    /\ failure_threshold = 2
    /\ state = CLOSED
    /\ failure_count = 1
    /\ last_op = "failure"
    /\ last_failure_time = now
    /\ now >= 1
    /\ \E c \in Callers : pc[c] = "running"

\* A call is turned away by the admission block: it arrives and no caller
\* changes position
Rejected == calls' = calls + 1 /\ pc' = pc

\* C32: a call that is turned away with the breaker-open error leaves state,
\* failure_count, success_count and last_failure_time as they were, and its
\* function is not invoked.
C32_RejectionChangesNothing ==
    [][ Rejected =>
            /\ UNCHANGED <<state, failure_count, success_count, last_failure_time>>
            /\ state = OPEN
            /\ last_result' = [kind |-> "raised", exc |-> BreakerOpenError, from |-> OPEN,
                               wait |-> recovery_timeout]
            /\ invocations' = invocations
      ]_vars

\* C32 witness: a call was turned away, and the next call is let through as a
\* probe exactly recovery_timeout after the failure that opened the breaker
C32_Witness ==
    /\ last_op = "rejected"
    /\ last_result.kind = "raised"
    /\ last_result.exc = BreakerOpenError
    /\ state = HALF_OPEN
    /\ recovery_timeout >= 1
    /\ now - last_failure_time = recovery_timeout
    /\ failure_count = failure_threshold
    /\ \E c \in Callers : pc[c] = "admitted" /\ entered[c].from = OPEN

\* The seconds left of the recovery timeout at this moment
\* (retry.py:119-121, elapsed = now - last_failure_time)
remaining_wait == recovery_timeout - (now - last_failure_time)

\* C33 (as stated): the breaker-open error tells the caller to wait the
\* remaining time: on every rejection the wait it names equals recovery_timeout
\* minus the time elapsed since last_failure_time.  The code names the full
\* recovery_timeout, so a rejection one second after the failure violates this.
C33_GuidanceIsRemainingWait ==
    [][ Rejected => last_result'.wait = remaining_wait ]_vars

\* A call admitted from OPEN (so after the recovery timeout) returns its
\* function's result
ProbeReturns(c) ==
    Finishes(c) /\ entered[c].from = OPEN /\ last_result'.kind = "returned"

C36_ServedAtExactlyTtl ==
    [][ CachedGetStep =>
          LET project_id == m_result'.call.project_id
              region == m_result'.call.region
              key == cache_key(project_id, region)
          IN  ( /\ key \in DOMAIN m_cache
                /\ m_stored[key] = [project_id |-> project_id, region |-> region]
                /\ now - m_cache_timestamp[key] = cache_ttl ) =>
                  /\ ~m_result'.rebuilt
                  /\ m_result'.value = m_cache[key]
                  /\ m_cache_timestamp' = m_cache_timestamp ]_vars

\* C35 (as stated): the model cache is transparent: whatever
\* get_available_models and clear_cache calls came before, a
\* get_available_models(project, region, use_cache=true) returns what the same
\* call with use_cache=false returns, the catalog models whose available
\* regions contain region (all models when no region is given), and when it
\* answers from the cache the entry was built for the same project and region,
\* also for a region named "all".
C35_CacheTransparent ==
    [][ CachedGetStep =>
          LET project_id == m_result'.call.project_id
              region == m_result'.call.region
              key == cache_key(project_id, region)
          IN  /\ m_result'.value = build_models(region)
              /\ ~m_result'.rebuilt =>
                    m_stored[key] = [project_id |-> project_id, region |-> region] ]_vars

\* An authenticate call ends by raising: its last strategy reported no match
\* or a strategy raised AuthenticationError
AuthenticateRaises ==
    a_pc # "idle" /\ a_pc' = "idle" /\ a_result'.kind = "raised"

\* C37 (as stated): an authenticate call that raises leaves the manager's
\* cached-credential slot exactly as it was before the call, and
\* validate_credentials never changes the slot, whether it returns or raises.
C37_RaisingAuthenticateKeepsSlot ==
    [][ /\ AuthenticateRaises => a_cache' = a_call.cache
        /\ \A c \in Held, ok \in BOOLEAN :
              validate_credentials(c, ok) => a_cache' = a_cache ]_vars

\* C37 (amended): an authenticate call that raises leaves the slot holding the
\* entry it held before the call, with the same credential, type, path and
\* recorded expiry, or leaves it empty if it was empty; the one thing the call
\* changes is the entry's expired flag, which the cache check has set to true.
\* validate_credentials never changes the slot, whether it returns or raises.
C37_RaisingAuthenticateKeepsEntry ==
    [][ /\ AuthenticateRaises =>
              /\ a_cache' = IF a_call.cache = NoCache
                            THEN NoCache
                            ELSE [a_call.cache EXCEPT !.expired = TRUE]
              /\ a_creds' = a_creds
        /\ \A c \in Held, ok \in BOOLEAN :
              validate_credentials(c, ok) => a_cache' = a_cache ]_vars

\* C37 witness: an authenticate call that found an expired entry not yet
\* flagged as expired has tried all three strategies and raised AUTH_001; the
\* slot holds the same entry, now flagged
C37_Witness ==
    /\ a_pc = "idle"
    /\ a_result = AuthenticationError("AUTH_001")
    /\ Len(a_invoked) = 3
    /\ a_call.cache # NoCache
    /\ ~a_call.cache.expired
    /\ a_cache = [a_call.cache EXCEPT !.expired = TRUE]

-----------------------------------------------------------------------------
(* Properties of VertexAIClient.switch_model *)

\* C38 (as stated): switch_model is all-or-nothing: when it raises
\* ModelNotFoundError (unknown model, unsupported region, invalid version, or
\* a model for which no backend client can be initialised) the client's
\* model_id, region, model_version, access_pattern and model client are all
\* unchanged; when it returns they all describe the new model and the region
\* is one of the new model's available regions.
C38_SwitchAllOrNothing ==
    [][ \A id \in SwitchModelIds, r \in Regions \cup {NoRegion},
           v \in Versions \cup {NoVersion}, ok \in BOOLEAN :
          switch_model(id, r, v, ok) =>
            /\ ( c_result'.kind = "raised" /\ c_result'.exc = ModelNotFoundError ) =>
                  UNCHANGED <<c_model_id, c_region, c_model_version, c_access_pattern,
                              c_model_client>>
            /\ c_result'.kind = "returned" =>
                  LET metadata == get_model_metadata(lower(id))
                  IN  /\ metadata # NoMetadata
                      /\ c_model_id' = metadata.model_id
                      /\ InList(c_region', metadata.available_regions)
                      /\ r # NoRegion => c_region' = r
                      /\ c_model_version' = IF v # NoVersion THEN v
                                            ELSE metadata.latest_version
                      /\ c_access_pattern' = metadata.access_pattern
                      /\ c_model_client'.model_id = c_model_id'
                      /\ c_model_client'.region = c_region' ]_vars

=============================================================================
